---- MODULE Spec2Model ----
(***************************************************************************)
(* A model of carbonapi's expression core (src/expr.go): the parser        *)
(* (parseExpr), the metric-request planner (expr.metrics) and the          *)
(* function evaluator (evalExpr).                                          *)
(*                                                                         *)
(* Conventions.                                                            *)
(*  - A Go string is a sequence of one-character strings, so that the      *)
(*    byte-level scanning of the parser and of extractMetric is modelled   *)
(*    as written.  Lit[...] gives the literals of the source.              *)
(*  - A float64 is a record [k, n, d]: a rational n/d in lowest terms      *)
(*    (k = "num"), an infinity (k = "inf", n = 1 or -1) or NaN.  Rounding  *)
(*    and signed zeros are not modelled.                                   *)
(*  - int32 arithmetic on the time window wraps (Add32, Sub32).            *)
(*  - Go slices and pointers: a series carries the index of its sample     *)
(*    buffer (Values and IsAbsent) in a heap, and a series list that is    *)
(*    the ValuesMap's own slice carries the key it lives under, so that    *)
(*    writes through shared backing arrays are seen where Go sees them.    *)
(***************************************************************************)
EXTENDS Integers, Sequences, FiniteSets, TLC

VARIABLES text, e, perr, tail, from, until, requests, values, heap, fetched, result,
          looked, panicked, pc

vars == <<text, e, perr, tail, from, until, requests, values, heap, fetched, result,
          looked, panicked, pc>>

(***************************************************************************)
(* String literals: of the source, and of the inputs of the model.         *)
(***************************************************************************)
Lit ==
    ("timeShift" :> <<"t", "i", "m", "e", "S", "h", "i", "f", "t">>) @@
    ("holtWintersForecast" :> <<"h", "o", "l", "t", "W", "i", "n", "t", "e", "r", "s", "F", "o", "r", "e", "c", "a", "s", "t">>) @@
    ("sum" :> <<"s", "u", "m">>) @@
    ("avg" :> <<"a", "v", "g">>) @@
    ("sumSeries" :> <<"s", "u", "m", "S", "e", "r", "i", "e", "s">>) @@
    ("averageSeries" :> <<"a", "v", "e", "r", "a", "g", "e", "S", "e", "r", "i", "e", "s">>) @@
    ("isNonNull" :> <<"i", "s", "N", "o", "n", "N", "u", "l", "l">>) @@
    ("isNotNull" :> <<"i", "s", "N", "o", "t", "N", "u", "l", "l">>) @@
    ("derivative" :> <<"d", "e", "r", "i", "v", "a", "t", "i", "v", "e">>) @@
    ("changed" :> <<"c", "h", "a", "n", "g", "e", "d">>) @@
    ("multiplySeries" :> <<"m", "u", "l", "t", "i", "p", "l", "y", "S", "e", "r", "i", "e", "s">>) @@
    ("sortByMaxima" :> <<"s", "o", "r", "t", "B", "y", "M", "a", "x", "i", "m", "a">>) @@
    ("sortByMinima" :> <<"s", "o", "r", "t", "B", "y", "M", "i", "n", "i", "m", "a">>) @@
    ("sortByTotal" :> <<"s", "o", "r", "t", "B", "y", "T", "o", "t", "a", "l">>) @@
    ("sortByName" :> <<"s", "o", "r", "t", "B", "y", "N", "a", "m", "e">>) @@
    ("groupByNode" :> <<"g", "r", "o", "u", "p", "B", "y", "N", "o", "d", "e">>) @@
    ("sumSeriesWithWildcards" :> <<"s", "u", "m", "S", "e", "r", "i", "e", "s", "W", "i", "t", "h", "W", "i", "l", "d", "c", "a", "r", "d", "s">>) @@
    ("averageSeriesWithWildcards" :> <<"a", "v", "e", "r", "a", "g", "e", "S", "e", "r", "i", "e", "s", "W", "i", "t", "h", "W", "i", "l", "d", "c", "a", "r", "d", "s">>) @@
    ("summarize" :> <<"s", "u", "m", "m", "a", "r", "i", "z", "e">>) @@
    ("movingAverage" :> <<"m", "o", "v", "i", "n", "g", "A", "v", "e", "r", "a", "g", "e">>) @@
    ("max" :> <<"m", "a", "x">>) @@
    ("min" :> <<"m", "i", "n">>) @@
    ("last" :> <<"l", "a", "s", "t">>) @@
    ("true" :> <<"t", "r", "u", "e">>) @@
    ("false" :> <<"f", "a", "l", "s", "e">>) @@
    ("True" :> <<"T", "r", "u", "e">>) @@
    ("False" :> <<"F", "a", "l", "s", "e">>) @@
    ("s" :> <<"s">>) @@
    ("sec" :> <<"s", "e", "c">>) @@
    ("h" :> <<"h">>) @@
    ("hour" :> <<"h", "o", "u", "r">>) @@
    ("d" :> <<"d">>) @@
    ("day" :> <<"d", "a", "y">>) @@
    ("w" :> <<"w">>) @@
    ("week" :> <<"w", "e", "e", "k">>) @@
    ("mon" :> <<"m", "o", "n">>) @@
    ("month" :> <<"m", "o", "n", "t", "h">>) @@
    ("y" :> <<"y">>) @@
    ("year" :> <<"y", "e", "a", "r">>) @@
    ("abs" :> <<"a", "b", "s">>) @@
    ("pos" :> <<"p", "o", "s">>) @@
    ("neg" :> <<"n", "e", "g">>) @@
    ("a.*" :> <<"a", ".", "*">>) @@
    ("c" :> <<"c">>) @@
    ("b.x" :> <<"b", ".", "x">>) @@
    ("a.x" :> <<"a", ".", "x">>) @@
    ("x" :> <<"x">>) @@
    ("median" :> <<"m", "e", "d", "i", "a", "n">>) @@
    ("  sum(c, a.*)" :> <<" ", " ", "s", "u", "m", "(", "c", ",", " ", "a", ".", "*", ")">>) @@
    (" c" :> <<" ", "c">>) @@
    ("sum( c)" :> <<"s", "u", "m", "(", " ", "c", ")">>) @@
    ("sum(avg(c),a.*))" :> <<"s", "u", "m", "(", "a", "v", "g", "(", "c", ")", ",", "a", ".", "*", ")", ")">>) @@
    ("sum(c a.*)" :> <<"s", "u", "m", "(", "c", " ", "a", ".", "*", ")">>) @@
    ("sum(c;a.*)" :> <<"s", "u", "m", "(", "c", ";", "a", ".", "*", ")">>) @@
    ("sum(" :> <<"s", "u", "m", "(">>) @@
    ("sum(c," :> <<"s", "u", "m", "(", "c", ",">>) @@
    ("sum(avg(c" :> <<"s", "u", "m", "(", "a", "v", "g", "(", "c">>) @@
    ("1ex" :> <<"1", "e", "x">>) @@
    ("'x" :> <<"'", "x">>) @@
    ("a.{b,c}.d" :> <<"a", ".", "{", "b", ",", "c", "}", ".", "d">>) @@
    ("a.{b,c}.d,x" :> <<"a", ".", "{", "b", ",", "c", "}", ".", "d", ",", "x">>) @@
    ("a}b" :> <<"a", "}", "b">>) @@
    ("{a}}b" :> <<"{", "a", "}", "}", "b">>) @@
    ("constantLine" :> <<"c", "o", "n", "s", "t", "a", "n", "t", "L", "i", "n", "e">>) @@
    ("ensure" :> <<"e", "n", "s", "u", "r", "e">>) @@
    ("unknown" :> <<"u", "n", "k", "n", "o", "w", "n">>) @@
    ("NaN" :> <<"N", "a", "N">>) @@
    ("+Inf" :> <<"+", "I", "n", "f">>) @@
    ("-Inf" :> <<"-", "I", "n", "f">>) @@
    ("removeBelowValue" :> <<"r", "e", "m", "o", "v", "e", "B", "e", "l", "o", "w", "V", "a", "l", "u", "e">>) @@
    ("removeAboveValue" :> <<"r", "e", "m", "o", "v", "e", "A", "b", "o", "v", "e", "V", "a", "l", "u", "e">>) @@
    ("nPercentile" :> <<"n", "P", "e", "r", "c", "e", "n", "t", "i", "l", "e">>) @@
    ("diffSeries" :> <<"d", "i", "f", "f", "S", "e", "r", "i", "e", "s">>) @@
    ("integral" :> <<"i", "n", "t", "e", "g", "r", "a", "l">>) @@
    ("alias" :> <<"a", "l", "i", "a", "s">>) @@
    ("absolute" :> <<"a", "b", "s", "o", "l", "u", "t", "e">>) @@
    ("a" :> <<"a">>) @@
    ("asPercent" :> <<"a", "s", "P", "e", "r", "c", "e", "n", "t">>) @@
    ("n.*" :> <<"n", ".", "*">>) @@
    ("1.x" :> <<"1", ".", "x">>) @@
    ("n.x" :> <<"n", ".", "x">>) @@
    ("checkLess" :> <<"c", "h", "e", "c", "k", "L", "e", "s", "s">>) @@
    ("checkLessEqual" :> <<"c", "h", "e", "c", "k", "L", "e", "s", "s", "E", "q", "u", "a", "l">>) @@
    ("checkGreater" :> <<"c", "h", "e", "c", "k", "G", "r", "e", "a", "t", "e", "r">>) @@
    ("checkGreaterEqual" :> <<"c", "h", "e", "c", "k", "G", "r", "e", "a", "t", "e", "r", "E", "q", "u", "a", "l">>) @@
    ("checkEqual" :> <<"c", "h", "e", "c", "k", "E", "q", "u", "a", "l">>) @@
    ("Less" :> <<"L", "e", "s", "s">>) @@
    ("LessEqual" :> <<"L", "e", "s", "s", "E", "q", "u", "a", "l">>) @@
    ("Greater" :> <<"G", "r", "e", "a", "t", "e", "r">>) @@
    ("GreaterEqual" :> <<"G", "r", "e", "a", "t", "e", "r", "E", "q", "u", "a", "l">>) @@
    ("Equal" :> <<"E", "q", "u", "a", "l">>) @@
    ("LGE" :> <<"L", "G", "E">>) @@
    ("highestAverage" :> <<"h", "i", "g", "h", "e", "s", "t", "A", "v", "e", "r", "a", "g", "e">>) @@
    ("highestCurrent" :> <<"h", "i", "g", "h", "e", "s", "t", "C", "u", "r", "r", "e", "n", "t">>) @@
    ("highestMax" :> <<"h", "i", "g", "h", "e", "s", "t", "M", "a", "x">>) @@
    ("checkVariance" :> <<"c", "h", "e", "c", "k", "V", "a", "r", "i", "a", "n", "c", "e">>) @@
    ("stdev" :> <<"s", "t", "d", "e", "v">>) @@
    ("windows" :> <<"w", "i", "n", "d", "o", "w", "s">>) @@
    ("maxDataPoints" :> <<"m", "a", "x", "D", "a", "t", "a", "P", "o", "i", "n", "t", "s">>) @@
    ("pearsonClosest" :> <<"p", "e", "a", "r", "s", "o", "n", "C", "l", "o", "s", "e", "s", "t">>) @@
    ("pos" :> <<"p", "o", "s">>) @@
    ("neg" :> <<"n", "e", "g">>) @@
    ("abs" :> <<"a", "b", "s">>)

Lower == {"a", "b", "c", "d", "e", "f", "g", "h", "i", "j", "k", "l", "m",
          "n", "o", "p", "q", "r", "s", "t", "u", "v", "w", "x", "y", "z"}

Upper == {"A", "B", "C", "D", "E", "F", "G", "H", "I", "J", "K", "L", "M",
          "N", "O", "P", "Q", "R", "S", "T", "U", "V", "W", "X", "Y", "Z"}

DigitChars == <<"0", "1", "2", "3", "4", "5", "6", "7", "8", "9">>

Digits == {DigitChars[i] : i \in 1..10}

DigitVal(c) == (CHOOSE i \in 1..10 : DigitChars[i] = c) - 1

\* The bytes the model uses, in ASCII order (Go compares strings bytewise).
AsciiOrder == <<" ", "'", "(", ")", "*", "+", ",", "-", ".",
                "0", "1", "2", "3", "4", "5", "6", "7", "8", "9", ":", "?",
                "A", "B", "C", "D", "E", "F", "G", "H", "I", "J", "K", "L", "M",
                "N", "O", "P", "Q", "R", "S", "T", "U", "V", "W", "X", "Y", "Z",
                "[", "]", "_",
                "a", "b", "c", "d", "e", "f", "g", "h", "i", "j", "k", "l", "m",
                "n", "o", "p", "q", "r", "s", "t", "u", "v", "w", "x", "y", "z",
                "{", "}">>

Ord(c) == CHOOSE i \in 1..Len(AsciiOrder) : AsciiOrder[i] = c

RECURSIVE StrLess(_, _)
StrLess(a, b) ==
    IF b = <<>> THEN FALSE
    ELSE IF a = <<>> THEN TRUE
    ELSE IF a[1] = b[1] THEN StrLess(Tail(a), Tail(b))
    ELSE Ord(a[1]) < Ord(b[1])

RECURSIVE NatStr(_)
NatStr(n) ==
    IF n < 10 THEN <<DigitChars[n + 1]>>
    ELSE NatStr(n \div 10) \o <<DigitChars[(n % 10) + 1]>>

\* fmt's %d and strconv.Itoa
Itoa(n) == IF n < 0 THEN <<"-">> \o NatStr(-n) ELSE NatStr(n)

(***************************************************************************)
(* float64                                                                 *)
(***************************************************************************)
Abs(x) == IF x < 0 THEN -x ELSE x

RECURSIVE GCD(_, _)
GCD(a, b) == IF b = 0 THEN a ELSE GCD(b, a % b)


NaN == [k |-> "nan", n |-> 0, d |-> 1]

\* a float64 computed outside expr.go (the forecast of the holtwinters package):
\* a value the model does not know; arithmetic on it gives an unknown value
Ext == [k |-> "ext", n |-> 0, d |-> 1]

Inf(sign) == [k |-> "inf", n |-> sign, d |-> 1]

Num(n, d) ==
    LET g == GCD(Abs(n), Abs(d))
        s == IF d < 0 THEN -1 ELSE 1
    IN  [k |-> "num", n |-> s * (n \div g), d |-> s * (d \div g)]

FInt(i) == [k |-> "num", n |-> i, d |-> 1]

IsNaN(x) == x.k = "nan"

IsExt(x) == x.k = "ext"

IsInf(x) == x.k = "inf"

Sign(x) == IF x.n > 0 THEN 1 ELSE IF x.n < 0 THEN -1 ELSE 0

FNeg(x) == IF IsNaN(x) THEN x ELSE [x EXCEPT !.n = -x.n]

FAbs(x) == IF IsNaN(x) THEN x ELSE [x EXCEPT !.n = Abs(x.n)]

FAdd(a, b) ==
    IF IsExt(a) \/ IsExt(b) THEN Ext
    ELSE IF IsNaN(a) \/ IsNaN(b) THEN NaN
    ELSE IF IsInf(a) /\ IsInf(b) THEN (IF a.n = b.n THEN a ELSE NaN)
    ELSE IF IsInf(a) THEN a
    ELSE IF IsInf(b) THEN b
    ELSE Num(a.n * b.d + b.n * a.d, a.d * b.d)

FSub(a, b) == FAdd(a, FNeg(b))

FMul(a, b) ==
    IF IsExt(a) \/ IsExt(b) THEN Ext
    ELSE IF IsNaN(a) \/ IsNaN(b) THEN NaN
    ELSE IF IsInf(a) \/ IsInf(b)
         THEN (IF Sign(a) * Sign(b) = 0 THEN NaN ELSE Inf(Sign(a) * Sign(b)))
    ELSE Num(a.n * b.n, a.d * b.d)

FDiv(a, b) ==
    IF IsExt(a) \/ IsExt(b) THEN Ext
    ELSE IF IsNaN(a) \/ IsNaN(b) THEN NaN
    ELSE IF IsInf(a) /\ IsInf(b) THEN NaN
    ELSE IF IsInf(a) THEN Inf(IF Sign(b) < 0 THEN -Sign(a) ELSE Sign(a))
    ELSE IF IsInf(b) THEN FInt(0)
    ELSE IF b.n = 0 THEN (IF a.n = 0 THEN NaN ELSE Inf(Sign(a)))
    ELSE Num(a.n * b.d, a.d * b.n)

FRank(x) == IF IsInf(x) THEN x.n ELSE 0

FLt(a, b) ==
    IF IsExt(a) \/ IsExt(b) \/ IsNaN(a) \/ IsNaN(b) THEN FALSE
    ELSE IF IsInf(a) \/ IsInf(b) THEN FRank(a) < FRank(b)
    ELSE a.n * b.d < b.n * a.d

FGt(a, b) == FLt(b, a)

FEq(a, b) == ~IsNaN(a) /\ ~IsNaN(b) /\ ~IsExt(a) /\ a = b

FLe(a, b) == FLt(a, b) \/ FEq(a, b)

FGe(a, b) == FLe(b, a)

\* int(f) and int32(f) of a finite float: truncation toward zero
Trunc(x) == IF x.n >= 0 THEN x.n \div x.d ELSE -((-x.n) \div x.d)

\* math.Ceil of a finite float, as an integer
CeilInt(x) == -((-x.n) \div x.d)

(***************************************************************************)
(* int32                                                                   *)
(***************************************************************************)
Max32 == 2147483647

Min32 == -2147483647 - 1

Add32(a, b) ==
    IF b >= 0
    THEN (IF a > Max32 - b THEN (a - Max32 - 1) + (b - Max32 - 1) ELSE a + b)
    ELSE (IF a < Min32 - b THEN (a + Max32 + 1) + (b + Max32 + 1) ELSE a + b)

Sub32(a, b) == IF b = Min32 THEN Add32(a, Min32) ELSE Add32(a, -b)

(***************************************************************************)
(* Expressions and the parser                                              *)
(***************************************************************************)
\* v bound to a name: F(v).  (A LET would do; an argument is evaluated once
\* and, unlike a LET definition, is not copied to every place it is used.)
With(v, F(_)) == F(v)

Drop(s, i) == SubSeq(s, i + 1, Len(s))

Take(s, i) == SubSeq(s, 1, i)

\* &expr{...}: the fields not named hold Go's zero values (etype 0 is etName)
MkExpr(target, etype, val, valStr, args, argString) ==
    [target |-> target, etype |-> etype, val |-> val, valStr |-> valStr,
     args |-> args, argString |-> argString]

NameExpr(name) == MkExpr(name, "etName", FInt(0), <<>>, <<>>, <<>>)

ConstExpr(v) == MkExpr(<<>>, "etConst", v, <<>>, <<>>, <<>>)

StringExpr(s) == MkExpr(<<>>, "etString", FInt(0), s, <<>>, <<>>)

FuncExpr(name, args, argString) == MkExpr(name, "etFunc", FInt(0), <<>>, args, argString)

\* a nil *expr
NilExpr == MkExpr(<<>>, "nil", FInt(0), <<>>, <<>>, <<>>)

isNameChar(r) ==
    \/ r \in Lower
    \/ r \in Upper
    \/ r \in Digits
    \/ r \in {".", "_", "-", "*", "?", ":", "[", "]"}

isDigit(r) == r \in Digits

\* a scan that ends the name at every comma and closing brace, whatever the
\* brace depth
RECURSIVE NameEndFlat(_, _, _)
NameEndFlat(s, i, braces) ==
    IF i < Len(s) /\ (isNameChar(s[i + 1]) \/ s[i + 1] = "{")
    THEN NameEndFlat(s, i + 1, braces)
    ELSE i

RECURSIVE NameEnd(_, _, _)
NameEnd(s, i, braces) ==
    IF i >= Len(s) THEN i
    ELSE LET c == s[i + 1]
         IN  IF isNameChar(c) THEN NameEnd(s, i + 1, braces)
             ELSE IF c = "{" THEN NameEnd(s, i + 1, braces + 1)
             ELSE IF c = "}" THEN (IF braces = 0 THEN i ELSE NameEnd(s, i + 1, braces - 1))
             ELSE IF c = "," THEN (IF braces = 0 THEN i ELSE NameEnd(s, i + 1, braces))
             ELSE i

parseName(s) ==
    With(NameEnd(s, 0, 0), LAMBDA i :
         IF i = Len(s) THEN [name |-> s, rest |-> <<>>]
         ELSE [name |-> Take(s, i), rest |-> Drop(s, i)])

RECURSIVE DigitsEnd(_, _)
DigitsEnd(s, i) == IF i < Len(s) /\ isDigit(s[i + 1]) THEN DigitsEnd(s, i + 1) ELSE i

RECURSIVE NatVal(_)
NatVal(s) == IF s = <<>> THEN 0 ELSE 10 * NatVal(Take(s, Len(s) - 1)) + DigitVal(s[Len(s)])

RECURSIVE Pow10(_)
Pow10(x) == IF x = 0 THEN 1 ELSE 10 * Pow10(x - 1)

MaxExp10 == 308

\* the value of mant * 10^ex, negated if neg: [v, err]
FloatValue(mant, ex, neg) ==
    IF mant # 0 /\ ex > MaxExp10 THEN [v |-> FInt(0), err |-> "ErrRange"]
    ELSE IF mant = 0 \/ ex < -MaxExp10 - 16 THEN [v |-> FInt(0), err |-> "nil"]
    ELSE With(IF ex >= 0 THEN Num(mant * Pow10(ex), 1) ELSE Num(mant, Pow10(-ex)),
              LAMBDA mag : [v |-> IF neg THEN FNeg(mag) ELSE mag, err |-> "nil"])

\* the exponent after "e": an optional sign and digits.  [ok, v]
ExpValue(x) ==
    With(IF x # <<>> /\ x[1] \in {"+", "-"} THEN Tail(x) ELSE x, LAMBDA xdigits :
         [ok |-> xdigits # <<>> /\ DigitsEnd(xdigits, 0) = Len(xdigits),
          v |-> IF x # <<>> /\ x[1] = "-" THEN -NatVal(xdigits) ELSE NatVal(xdigits)])

\* the unsigned literal m, whose integer digits end at i and whose fraction
\* (with its ".") ends at j
FloatParts(m, i, j, neg) ==
    With(SubSeq(m, i + 2, j), LAMBDA fracDigits :
    With(IF j < Len(m) /\ m[j + 1] \in {"e", "E"} THEN ExpValue(Drop(m, j + 1))
         ELSE [ok |-> j = Len(m), v |-> 0],
         LAMBDA x :
         IF i + Len(fracDigits) = 0 \/ ~x.ok THEN [v |-> FInt(0), err |-> "ErrSyntax"]
         ELSE FloatValue(NatVal(Take(m, i) \o fracDigits), x.v - Len(fracDigits), neg)))

\* strconv.ParseFloat(s, 64) on the bytes parseConst lets through: an optional
\* sign, digits with an optional fraction, an optional exponent; a value beyond
\* the float64 range is an error.  [v, err]
ParseFloat(s) ==
    With(IF s # <<>> /\ s[1] \in {"+", "-"} THEN Tail(s) ELSE s, LAMBDA m :
    With(DigitsEnd(m, 0), LAMBDA i :
         FloatParts(m, i, IF i < Len(m) /\ m[i + 1] = "." THEN DigitsEnd(m, i + 1) ELSE i,
                    s # <<>> /\ s[1] = "-")))

RECURSIVE ConstEnd(_, _)
ConstEnd(s, i) ==
    IF i < Len(s) /\ (isDigit(s[i + 1]) \/ s[i + 1] \in {".", "+", "-", "e", "E"})
    THEN ConstEnd(s, i + 1)
    ELSE i

parseConst(s) ==
    With(ConstEnd(s, 0), LAMBDA i :
    With(ParseFloat(Take(s, i)), LAMBDA p :
         IF p.err # "nil" THEN [v |-> FInt(0), rest |-> <<>>, err |-> p.err]
         ELSE [v |-> p.v, rest |-> Drop(s, i), err |-> p.err]))

RECURSIVE QuoteEnd(_, _, _)
QuoteEnd(s, i, match) == IF i < Len(s) /\ s[i + 1] # match THEN QuoteEnd(s, i + 1, match) ELSE i

\* s starts with a quote (the caller has checked it)
parseString(s0) ==
    With(QuoteEnd(Tail(s0), 0, s0[1]), LAMBDA i :
         IF i = Len(s0) - 1 THEN [v |-> <<>>, rest |-> <<>>, err |-> "ErrMissingQuote"]
         ELSE [v |-> SubSeq(s0, 2, i + 1), rest |-> Drop(s0, i + 2), err |-> "nil"])

RECURSIVE SkipSpaces(_)
SkipSpaces(s) == IF Len(s) > 1 /\ s[1] = " " THEN SkipSpaces(Tail(s)) ELSE s

RECURSIVE parseExpr(_)
RECURSIVE ArgLoop(_, _, _)

\* the for loop of parseArgList
ArgLoop(argString, args, s) ==
    With(parseExpr(s), LAMBDA p :
         IF p.err # "nil"
         THEN [argString |-> <<>>, args |-> <<>>, rest |-> p.rest, err |-> p.err]
         ELSE IF p.rest = <<>>
              THEN [argString |-> <<>>, args |-> <<>>, rest |-> <<>>, err |-> "ErrMissingComma"]
         ELSE IF p.rest[1] = ")"
              THEN [argString |-> Take(argString, Len(argString) - Len(p.rest)),
                    args |-> Append(args, p.ex), rest |-> Tail(p.rest), err |-> "nil"]
         ELSE IF p.rest[1] # "," /\ p.rest[1] # " "
              THEN [argString |-> <<>>, args |-> <<>>, rest |-> <<>>,
                    err |-> "ErrUnexpectedCharacter"]
         ELSE ArgLoop(argString, Append(args, p.ex), Tail(p.rest)))

\* a parseArgList that drops the spaces after the opening parenthesis from
\* argString
parseArgListTrimmed(s) == ArgLoop(SkipSpaces(Tail(s)), <<>>, Tail(s))

\* s starts with "(" (the caller has checked it)
parseArgList(s) == ArgLoop(Tail(s), <<>>, Tail(s))

\* parseExpr after the leading spaces
parseTerm(s) ==
    IF Len(s) = 0 THEN [ex |-> NilExpr, rest |-> <<>>, err |-> "ErrMissingExpr"]
    ELSE IF isDigit(s[1]) \/ s[1] = "-" \/ s[1] = "+"
         THEN With(parseConst(s), LAMBDA c :
                   [ex |-> ConstExpr(c.v), rest |-> c.rest, err |-> c.err])
    ELSE IF s[1] = "'" \/ s[1] = "\""
         THEN With(parseString(s), LAMBDA q :
                   [ex |-> StringExpr(q.v), rest |-> q.rest, err |-> q.err])
    ELSE With(parseName(s), LAMBDA n :
              IF n.name = <<>>
              THEN [ex |-> NilExpr, rest |-> n.rest, err |-> "ErrMissingArgument"]
              ELSE IF n.rest # <<>> /\ n.rest[1] = "("
                   THEN With(parseArgList(n.rest), LAMBDA a :
                             [ex |-> FuncExpr(n.name, a.args, a.argString),
                              rest |-> a.rest, err |-> a.err])
                   ELSE [ex |-> NameExpr(n.name), rest |-> n.rest, err |-> "nil"])

parseExpr(s0) == parseTerm(SkipSpaces(s0))

(***************************************************************************)
(* Interval strings (intervalString is not part of expr.go; modelled from  *)
(* the specification's section 4.4): an optional sign, an integer          *)
(* magnitude and a unit, matched case-insensitively.                       *)
(***************************************************************************)
ToLowerChar(c) == IF c \in Upper THEN AsciiOrder[Ord(c) + (Ord("a") - Ord("A"))] ELSE c

ToLower(s) == [i \in 1..Len(s) |-> ToLowerChar(s[i])]

UnitSeconds(u) ==
    IF u \in {Lit["s"], Lit["sec"]} THEN 1
    ELSE IF u = Lit["min"] THEN 60
    ELSE IF u \in {Lit["h"], Lit["hour"]} THEN 3600
    ELSE IF u \in {Lit["d"], Lit["day"]} THEN 86400
    ELSE IF u \in {Lit["w"], Lit["week"]} THEN 604800
    ELSE IF u \in {Lit["mon"], Lit["month"]} THEN 2592000
    ELSE IF u \in {Lit["y"], Lit["year"]} THEN 31536000
    ELSE 0

intervalString(s0, defaultSign) ==
    LET signed == s0 # <<>> /\ s0[1] \in {"+", "-"}
        sign == IF signed THEN (IF s0[1] = "-" THEN -1 ELSE 1) ELSE defaultSign
        s == IF signed THEN Tail(s0) ELSE s0
        i == DigitsEnd(s, 0)
        units == UnitSeconds(ToLower(Drop(s, i)))
    IN  IF i = 0 \/ units = 0 THEN [v |-> 0, err |-> "ErrBadInterval"]
        ELSE [v |-> sign * NatVal(Take(s, i)) * units, err |-> "nil"]

(***************************************************************************)
(* Argument access                                                         *)
(***************************************************************************)
\* n is Go's index: e.args[n] is ex.args[n + 1]
getStringArg(ex, n) ==
    IF Len(ex.args) <= n THEN [v |-> <<>>, err |-> "ErrMissingArgument"]
    ELSE IF ex.args[n + 1].etype # "etString" THEN [v |-> <<>>, err |-> "ErrBadType"]
    ELSE [v |-> ex.args[n + 1].valStr, err |-> "nil"]

getStringArgDefault(ex, n, s) ==
    IF Len(ex.args) <= n THEN [v |-> s, err |-> "nil"]
    ELSE IF ex.args[n + 1].etype # "etString" THEN [v |-> <<>>, err |-> "ErrBadType"]
    ELSE [v |-> ex.args[n + 1].valStr, err |-> "nil"]

\* getIntervalArg with the default sign dropped: an unsigned interval is
\* taken as positive (a faulty variant)
getIntervalArgUnsigned(ex, n, defaultSign) ==
    IF Len(ex.args) <= n THEN [v |-> 0, err |-> "ErrMissingArgument"]
    ELSE IF ex.args[n + 1].etype # "etString" THEN [v |-> 0, err |-> "ErrBadType"]
    ELSE With(intervalString(ex.args[n + 1].valStr, 1), LAMBDA r :
              IF r.err # "nil" THEN [v |-> 0, err |-> "ErrBadType"]
              ELSE [v |-> r.v, err |-> "nil"])

getIntervalArg(ex, n, defaultSign) ==
    IF Len(ex.args) <= n THEN [v |-> 0, err |-> "ErrMissingArgument"]
    ELSE IF ex.args[n + 1].etype # "etString" THEN [v |-> 0, err |-> "ErrBadType"]
    ELSE With(intervalString(ex.args[n + 1].valStr, defaultSign), LAMBDA r :
              IF r.err # "nil" THEN [v |-> 0, err |-> "ErrBadType"]
              ELSE [v |-> r.v, err |-> "nil"])

getFloatArg(ex, n) ==
    IF Len(ex.args) <= n THEN [v |-> FInt(0), err |-> "ErrMissingArgument"]
    ELSE IF ex.args[n + 1].etype # "etConst" THEN [v |-> FInt(0), err |-> "ErrBadType"]
    ELSE [v |-> ex.args[n + 1].val, err |-> "nil"]

getFloatArgDefault(ex, n, v) ==
    IF Len(ex.args) <= n THEN [v |-> v, err |-> "nil"]
    ELSE IF ex.args[n + 1].etype # "etConst" THEN [v |-> FInt(0), err |-> "ErrBadType"]
    ELSE [v |-> ex.args[n + 1].val, err |-> "nil"]

getIntArg(ex, n) ==
    IF Len(ex.args) <= n THEN [v |-> 0, err |-> "ErrMissingArgument"]
    ELSE IF ex.args[n + 1].etype # "etConst" THEN [v |-> 0, err |-> "ErrBadType"]
    ELSE [v |-> Trunc(ex.args[n + 1].val), err |-> "nil"]

getIntArgs(ex, n) ==
    IF Len(ex.args) <= n THEN [v |-> <<>>, err |-> "ErrMissingArgument"]
    ELSE IF \E i \in (n + 1)..Len(ex.args) : ex.args[i].etype # "etConst"
         THEN [v |-> <<>>, err |-> "ErrBadType"]
    ELSE [v |-> [i \in 1..(Len(ex.args) - n) |-> Trunc(ex.args[n + i].val)], err |-> "nil"]

getIntArgDefault(ex, n, d) ==
    IF Len(ex.args) <= n THEN [v |-> d, err |-> "nil"]
    ELSE IF ex.args[n + 1].etype # "etConst" THEN [v |-> 0, err |-> "ErrBadType"]
    ELSE [v |-> Trunc(ex.args[n + 1].val), err |-> "nil"]

getBoolArgDefault(ex, n, b) ==
    IF Len(ex.args) <= n THEN [v |-> b, err |-> "nil"]
    ELSE IF ex.args[n + 1].etype # "etName" THEN [v |-> FALSE, err |-> "ErrBadType"]
    ELSE IF ex.args[n + 1].target \in {Lit["False"], Lit["false"]} THEN [v |-> FALSE, err |-> "nil"]
    ELSE IF ex.args[n + 1].target \in {Lit["True"], Lit["true"]} THEN [v |-> TRUE, err |-> "nil"]
    ELSE [v |-> FALSE, err |-> "ErrBadType"]

(***************************************************************************)
(* The planner                                                             *)
(***************************************************************************)
WarmUp == 7 * 86400

MkRequest(metric, f, u) == [metric |-> metric, from |-> f, until |-> u]

\* shiftRequests with until left alone (a faulty variant)
shiftFromOnly(r, offs) == [i \in 1..Len(r) |-> [r[i] EXCEPT !.from = Add32(@, offs)]]

\* for i := range r { r[i].from += offs; r[i].until += offs }
shiftRequests(r, offs) ==
    [i \in 1..Len(r) |-> [r[i] EXCEPT !.from = Add32(@, offs), !.until = Add32(@, offs)]]

\* warmUpRequests moving the whole window back (a faulty variant)
warmUpWholeWindow(r) ==
    [i \in 1..Len(r) |-> [r[i] EXCEPT !.from = Sub32(@, WarmUp), !.until = Sub32(@, WarmUp)]]

\* for i := range r { r[i].from -= 7 * 86400 }
warmUpRequests(r) == [i \in 1..Len(r) |-> [r[i] EXCEPT !.from = Sub32(@, WarmUp)]]

RECURSIVE metrics(_)

\* argMetrics keeping only the requests of the last argument: r = a.metrics()
\* in place of r = append(r, a.metrics()...) (a faulty variant)
argMetricsLast(args, i) == IF i > Len(args) THEN <<>> ELSE metrics(args[Len(args)])

RECURSIVE argMetrics(_, _)

\* for _, a := range e.args { r = append(r, a.metrics()...) }, from argument i on
argMetrics(args, i) ==
    IF i > Len(args) THEN <<>> ELSE metrics(args[i]) \o argMetrics(args, i + 1)

metrics(ex) ==
    IF ex.etype = "etName" THEN <<MkRequest(ex.target, 0, 0)>>
    ELSE IF ex.etype \in {"etConst", "etString"} THEN <<>>
    ELSE IF ex.etype = "etFunc"
         THEN With(argMetrics(ex.args, 1), LAMBDA r :
                   IF ex.target = Lit["timeShift"]
                   THEN With(getIntervalArg(ex, 1, -1), LAMBDA offs :
                             IF offs.err # "nil" THEN <<>> ELSE shiftRequests(r, offs.v))
                   ELSE IF ex.target = Lit["holtWintersForecast"] THEN warmUpRequests(r)
                   ELSE r)
    ELSE <<>>

(***************************************************************************)
(* Series, series lists and the state an evaluation reads and writes       *)
(***************************************************************************)
\* a metricData; buf is the index in the heap of its Values and IsAbsent arrays
MkSeries(name, start, stop, step, buf) ==
    [name |-> name, start |-> start, stop |-> stop, step |-> step, buf |-> buf,
     color |-> <<>>, dashed |-> FALSE, drawAsInfinite |-> FALSE, secondYAxis |-> FALSE]

MkBuf(vals, abs) == [vals |-> vals, abs |-> abs]

NoKey == MkRequest(<<>>, 0, 0)

\* a []*metricData: the ValuesMap's own slice under key home (its first len
\* elements), or a slice the evaluation allocated
NilList == [homed |-> FALSE, home |-> NoKey, len |-> 0, items |-> <<>>]

FreshList(items) == [homed |-> FALSE, home |-> NoKey, len |-> Len(items), items |-> items]

HomedList(key, len) == [homed |-> TRUE, home |-> key, len |-> len, items |-> <<>>]

Items(st, l) == IF l.homed THEN Take(st.vm[l.home], l.len) ELSE l.items

Vals(st, s) == st.heap[s.buf].vals

Absent(st, s) == st.heap[s.buf].abs

\* st: heap (the sample buffers), vm (the ValuesMap in use), looked (the keys
\* looked up in the caller's ValuesMap), panic (a runtime panic has ended the
\* evaluation), nested (vm is groupByNode's stub map), order and forecastOk
\* (what the evaluation does not decide: map iteration order, the outcome of
\* holtwinters.Forecast)
MkState(h, vm, order, forecastOk) ==
    [heap |-> h, vm |-> vm, looked |-> {}, panic |-> FALSE, nested |-> FALSE,
     order |-> order, forecastOk |-> forecastOk]

Ret(st, ex, res) == [st |-> st, ex |-> ex, res |-> res]

RetPanic(st, ex) == [st |-> [st EXCEPT !.panic = TRUE], ex |-> ex, res |-> NilList]

SetMin(S) == CHOOSE x \in S : \A y \in S : x <= y

RECURSIVE FSum(_)
FSum(vs) == IF vs = <<>> THEN FInt(0) ELSE FAdd(FSum(Take(vs, Len(vs) - 1)), vs[Len(vs)])

\* math.Sqrt where the root is a fraction of integers; another root is a
\* value the model does not know
FSqrt(x) ==
    IF x.k # "num" THEN (IF IsInf(x) /\ x.n > 0 THEN x ELSE IF IsExt(x) THEN Ext ELSE NaN)
    ELSE IF x.n < 0 THEN NaN
    ELSE IF \E r \in 0..x.n : r * r = x.n /\ \E q \in 1..x.d : q * q = x.d
    THEN Num(CHOOSE r \in 0..x.n : r * r = x.n, CHOOSE q \in 1..x.d : q * q = x.d)
    ELSE Ext

\* Windowed.Stdev after the values of vs have been pushed into a window of
\* their number
FStdev(vs) ==
    IF Len(vs) = 0 THEN FInt(0)
    ELSE FDiv(FSqrt(FSub(FMul(FInt(Len(vs)), FSum([i \in 1..Len(vs) |-> FMul(vs[i], vs[i])])),
                         FMul(FSum(vs), FSum(vs)))),
              FInt(Len(vs)))

FAvg(vs) == FDiv(FSum(vs), FInt(Len(vs)))

RECURSIVE evalExpr(_, _, _, _)

getSeriesArg(arg, f, u, st) ==
    IF arg.etype # "etName" /\ arg.etype # "etFunc"
    THEN [st |-> st, ex |-> arg, res |-> NilList, err |-> TRUE]
    ELSE With(evalExpr(arg, f, u, st), LAMBDA a :
              [st |-> a.st, ex |-> a.ex, res |-> a.res, err |-> a.st.panic \/ a.res.len = 0])

RECURSIVE getSeriesArgsLoop(_, _, _, _, _, _)
getSeriesArgsLoop(args, i, f, u, st, acc) ==
    IF i > Len(args) THEN [st |-> st, args |-> args, items |-> acc, err |-> Len(acc) = 0]
    ELSE With(getSeriesArg(args[i], f, u, st), LAMBDA a :
              IF a.err
              THEN [st |-> a.st, args |-> [args EXCEPT ![i] = a.ex], items |-> <<>>,
                    err |-> TRUE]
              ELSE getSeriesArgsLoop([args EXCEPT ![i] = a.ex], i + 1, f, u, a.st,
                                     acc \o Items(a.st, a.res)))

\* the arguments from index first on (Go's e.args[first-1:]); the arguments before
\* it are kept as they are
getSeriesArgs(args, first, f, u, st) == getSeriesArgsLoop(args, first, f, u, st, <<>>)

Paren(name, inner) == name \o <<"(">> \o inner \o <<")">>

\* what a seriesFunc leaves in r: the record, its Values and IsAbsent
CbRet(r, vals, abs) == [r |-> r, vals |-> vals, abs |-> abs, panic |-> FALSE]

CbPanic(r) == [r |-> r, vals |-> <<>>, abs |-> <<>>, panic |-> TRUE]

isNonNullFunc(st, a, r) ==
    IF Len(Absent(st, a)) < Len(Vals(st, a)) THEN CbPanic(r)
    ELSE CbRet(r, [i \in 1..Len(Vals(st, a)) |->
                      IF Absent(st, a)[i] THEN FInt(0) ELSE FInt(1)],
               [i \in 1..Len(Vals(st, a)) |-> FALSE])

\* the loop of derivative from Go index i on: [vals, abs] of r
RECURSIVE derivativeLoop(_, _, _, _)
derivativeLoop(vals, abs, i, prev) ==
    IF i >= Len(vals) THEN MkBuf(<<>>, <<>>)
    ELSE IF i = 0 \/ abs[i + 1]
         THEN With(derivativeLoop(vals, abs, i + 1, prev), LAMBDA rest :
                   MkBuf(<<FInt(0)>> \o rest.vals, <<TRUE>> \o rest.abs))
    ELSE With(derivativeLoop(vals, abs, i + 1, vals[i + 1]), LAMBDA rest :
              MkBuf(<<FSub(vals[i + 1], prev)>> \o rest.vals, <<FALSE>> \o rest.abs))

derivativeFunc(st, a, r) ==
    IF Len(Vals(st, a)) = 0 \/ Len(Absent(st, a)) < Len(Vals(st, a)) THEN CbPanic(r)
    ELSE With(derivativeLoop(Vals(st, a), Absent(st, a), 0, Vals(st, a)[1]),
              LAMBDA b : CbRet(r, b.vals, b.abs))

\* the loop of changed from Go index i on: the Values of r
RECURSIVE changedLoop(_, _, _)
changedLoop(vals, i, prev) ==
    IF i >= Len(vals) THEN <<>>
    ELSE IF IsNaN(prev) THEN <<FInt(0)>> \o changedLoop(vals, i + 1, vals[i + 1])
    ELSE IF ~IsNaN(vals[i + 1]) /\ ~FEq(prev, vals[i + 1])
         THEN <<FInt(1)>> \o changedLoop(vals, i + 1, vals[i + 1])
    ELSE <<FInt(0)>> \o changedLoop(vals, i + 1, prev)

changedFunc(st, a, r) ==
    CbRet(r, changedLoop(Vals(st, a), 0, NaN), [j \in 1..Len(Vals(st, a)) |-> FALSE])

\* the loop of integral from index i on: [vals, abs] of r
RECURSIVE integralLoop(_, _, _, _)
integralLoop(vals, abs, i, current) ==
    IF i > Len(vals) THEN MkBuf(<<>>, <<>>)
    ELSE IF abs[i]
         THEN With(integralLoop(vals, abs, i + 1, current), LAMBDA rest :
                   MkBuf(<<FInt(0)>> \o rest.vals, <<TRUE>> \o rest.abs))
    ELSE With(integralLoop(vals, abs, i + 1, FAdd(current, vals[i])), LAMBDA rest :
              MkBuf(<<FAdd(current, vals[i])>> \o rest.vals, <<FALSE>> \o rest.abs))

\* an integral that leaves the input's value in an absent sample
integralKeepAbsent(st, a, r) ==
    IF Len(Absent(st, a)) < Len(Vals(st, a)) THEN CbPanic(r)
    ELSE With(integralLoop(Vals(st, a), Absent(st, a), 1, FInt(0)), LAMBDA b :
              CbRet(r, [i \in 1..Len(b.vals) |->
                           IF b.abs[i] THEN Vals(st, a)[i] ELSE b.vals[i]],
                    b.abs))

integralFunc(st, a, r) ==
    IF Len(Absent(st, a)) < Len(Vals(st, a)) THEN CbPanic(r)
    ELSE With(integralLoop(Vals(st, a), Absent(st, a), 1, FInt(0)),
              LAMBDA b : CbRet(r, b.vals, b.abs))

\* a closure that negates where absolute takes the magnitude
negateFunc(st, a, r) ==
    IF Len(Absent(st, a)) < Len(Vals(st, a)) THEN CbPanic(r)
    ELSE CbRet(r, [i \in 1..Len(Vals(st, a)) |->
                      IF Absent(st, a)[i] THEN FInt(0) ELSE FNeg(Vals(st, a)[i])],
               [i \in 1..Len(Vals(st, a)) |-> Absent(st, a)[i]])

absoluteFunc(st, a, r) ==
    IF Len(Absent(st, a)) < Len(Vals(st, a)) THEN CbPanic(r)
    ELSE CbRet(r, [i \in 1..Len(Vals(st, a)) |->
                      IF Absent(st, a)[i] THEN FInt(0) ELSE FAbs(Vals(st, a)[i])],
               [i \in 1..Len(Vals(st, a)) |-> Absent(st, a)[i]])

seriesFunc(function, st, a, r) ==
    IF function = "isNonNull" THEN isNonNullFunc(st, a, r)
    ELSE IF function = "derivative" THEN derivativeFunc(st, a, r)
    ELSE IF function = "integral" THEN integralFunc(st, a, r)
    ELSE IF function = "absolute" THEN absoluteFunc(st, a, r)
    ELSE changedFunc(st, a, r)

\* the aggregateFunc values that aggregateSeries is called with
aggregateFunc(function, vs) ==
    IF function = "sum" THEN FSum(vs)
    ELSE IF function = "stdev" THEN FStdev(vs)
    ELSE FAvg(vs)

\* the first index of out that panicked, or Len(out) + 1
FirstPanic(out) ==
    IF \E i \in 1..Len(out) : out[i].panic
    THEN SetMin({i \in 1..Len(out) : out[i].panic})
    ELSE Len(out) + 1

\* the heap with the buffers of out[1..m] appended
Alloc(st, out, m) ==
    [st EXCEPT !.heap = @ \o [i \in 1..m |-> MkBuf(out[i].vals, out[i].abs)]]

forEachSeriesDo(ex, f, u, st, function) ==
    With(getSeriesArg(ex.args[1], f, u, st), LAMBDA g :
    With([ex EXCEPT !.args[1] = g.ex], LAMBDA ex1 :
         IF g.err THEN Ret(g.st, ex1, NilList)
         ELSE
    With(Items(g.st, g.res), LAMBDA arg :
    With([i \in 1..Len(arg) |->
             seriesFunc(function, g.st, arg[i],
                        [arg[i] EXCEPT !.name = Paren(ex.target, arg[i].name)])],
         LAMBDA out :
    With(FirstPanic(out) - 1, LAMBDA m :
         IF m < Len(arg) THEN RetPanic(Alloc(g.st, out, m), ex1)
         ELSE Ret(Alloc(g.st, out, m), ex1,
                  FreshList([i \in 1..m |->
                                [out[i].r EXCEPT !.buf = Len(g.st.heap) + i]])))))))

\* the values of the series of args that are present at index i
PresentAt(st, args, i) ==
    LET present == SelectSeq(args, LAMBDA s : ~Absent(st, s)[i])
    IN  [j \in 1..Len(present) |-> Vals(st, present[j])[i]]

\* some series of args cannot be read at a Go index below length
ShortAt(st, args, length) ==
    \E i \in 1..length : \E j \in 1..Len(args) :
        \/ Len(Absent(st, args[j])) < i
        \/ ~Absent(st, args[j])[i] /\ Len(Vals(st, args[j])) < i

aggregateSeries(ex, args, st, function) ==
    With(Len(Vals(st, args[1])), LAMBDA length :
         IF ShortAt(st, args, length) THEN RetPanic(st, ex)
         ELSE
    With([i \in 1..length |->
             With(PresentAt(st, args, i),
                  LAMBDA vs : IF Len(vs) > 0 THEN aggregateFunc(function, vs) ELSE NaN)],
         LAMBDA vals :
         Ret([st EXCEPT !.heap = Append(@, MkBuf(vals, [i \in 1..length |-> IsNaN(vals[i])]))],
             ex,
             FreshList(<<[args[1] EXCEPT !.name = Paren(ex.target, ex.argString),
                                         !.buf = Len(st.heap) + 1]>>))))

(***************************************************************************)
(* The functions of evalExpr                                               *)
(***************************************************************************)
evalSum(ex, f, u, st) ==
    With(getSeriesArgs(ex.args, 1, f, u, st), LAMBDA g :
         IF g.err THEN Ret(g.st, [ex EXCEPT !.args = g.args], NilList)
         ELSE aggregateSeries([ex EXCEPT !.args = g.args, !.target = Lit["sumSeries"]],
                              g.items, g.st, "sum"))

evalAvg(ex, f, u, st) ==
    With(getSeriesArgs(ex.args, 1, f, u, st), LAMBDA g :
         IF g.err THEN Ret(g.st, [ex EXCEPT !.args = g.args], NilList)
         ELSE aggregateSeries([ex EXCEPT !.args = g.args, !.target = Lit["averageSeries"]],
                              g.items, g.st, "avg"))

evalIsNonNull(ex, f, u, st) ==
    forEachSeriesDo([ex EXCEPT !.target = Lit["isNonNull"]], f, u, st, "isNonNull")

evalDerivative(ex, f, u, st) == forEachSeriesDo(ex, f, u, st, "derivative")

evalChanged(ex, f, u, st) == forEachSeriesDo(ex, f, u, st, "changed")

evalIntegral(ex, f, u, st) == forEachSeriesDo(ex, f, u, st, "integral")

\* a read of diffSeries is out of range: minuend[0].IsAbsent[i], or for a
\* present minuend sample s.IsAbsent[i] or s.Values[i] of a subtrahend
diffShort(st, m, subtrahends) ==
    \E i \in 1..Len(Vals(st, m)) :
        \/ Len(Absent(st, m)) < i
        \/ /\ ~Absent(st, m)[i]
           /\ \E j \in 1..Len(subtrahends) :
                 \/ Len(Absent(st, subtrahends[j])) < i
                 \/ ~Absent(st, subtrahends[j])[i] /\ Len(Vals(st, subtrahends[j])) < i

\* a sub that adds the subtrahends' samples whether absent or not
diffSubAll(st, subtrahends, i) ==
    FSum([j \in 1..Len(subtrahends) |-> Vals(st, subtrahends[j])[i]])

\* sub: the sum of the subtrahends' present samples at index i
diffSub(st, subtrahends, i) == FSum(PresentAt(st, subtrahends, i))

evalDiffSeries(ex, f, u, st) ==
    IF Len(ex.args) < 2 THEN Ret(st, ex, NilList)
    ELSE
    With(getSeriesArg(ex.args[1], f, u, st), LAMBDA g :
    With([ex EXCEPT !.args[1] = g.ex], LAMBDA ex1 :
         IF g.err THEN Ret(g.st, ex1, NilList)
         ELSE
    With(getSeriesArgs(ex1.args, 2, f, u, g.st), LAMBDA gs :
    With([ex1 EXCEPT !.args = gs.args], LAMBDA ex2 :
         IF gs.err THEN Ret(gs.st, ex2, NilList)
         ELSE
    With(Items(gs.st, g.res)[1], LAMBDA m :
         IF diffShort(gs.st, m, gs.items) THEN RetPanic(gs.st, ex2)
         ELSE Ret([gs.st EXCEPT !.heap =
                      Append(@, MkBuf([i \in 1..Len(Vals(gs.st, m)) |->
                                          IF Absent(gs.st, m)[i] THEN FInt(0)
                                          ELSE FSub(Vals(gs.st, m)[i],
                                                    diffSub(gs.st, gs.items, i))],
                                      [i \in 1..Len(Vals(gs.st, m)) |->
                                          Absent(gs.st, m)[i]]))],
                  ex2,
                  FreshList(<<[m EXCEPT !.name = Paren(Lit["diffSeries"], ex.argString),
                                        !.buf = Len(gs.st.heap) + 1]>>)))))))

evalAbsolute(ex, f, u, st) == forEachSeriesDo(ex, f, u, st, "absolute")

\* a copy of arg[0] under the new name; it shares the samples of arg[0]
evalAlias(ex, f, u, st) ==
    With(getSeriesArg(ex.args[1], f, u, st), LAMBDA g :
    With([ex EXCEPT !.args[1] = g.ex], LAMBDA ex1 :
         IF g.err THEN Ret(g.st, ex1, NilList)
         ELSE
    With(getStringArg(ex, 1), LAMBDA alias :
         IF alias.err # "nil" THEN Ret(g.st, ex1, NilList)
         ELSE Ret(g.st, ex1,
                  FreshList(<<[Items(g.st, g.res)[1] EXCEPT !.name = alias.v]>>)))))

\* a timeShift that moves startTime and stopTime forward by offs (a faulty
\* variant)
evalTimeShiftForward(ex, f, u, st) ==
    With(getIntervalArg(ex, 1, -1), LAMBDA offs :
         IF offs.err # "nil" THEN Ret(st, ex, NilList)
         ELSE
    With(getSeriesArg(ex.args[1], Add32(f, offs.v), Add32(u, offs.v), st), LAMBDA g :
         IF g.err THEN Ret(g.st, [ex EXCEPT !.args[1] = g.ex], NilList)
         ELSE
    With(Items(g.st, g.res), LAMBDA arg :
         Ret(g.st, [ex EXCEPT !.args[1] = g.ex],
             FreshList([i \in 1..Len(arg) |->
                 [arg[i] EXCEPT !.name = Paren(Lit["timeShift"], arg[i].name),
                                !.start = Add32(arg[i].start, offs.v),
                                !.stop = Add32(arg[i].stop, offs.v)]])))))

evalTimeShift(ex, f, u, st) ==
    With(getIntervalArg(ex, 1, -1), LAMBDA offs :
         IF offs.err # "nil" THEN Ret(st, ex, NilList)
         ELSE
    With(getSeriesArg(ex.args[1], Add32(f, offs.v), Add32(u, offs.v), st), LAMBDA g :
         IF g.err THEN Ret(g.st, [ex EXCEPT !.args[1] = g.ex], NilList)
         ELSE
    With(Items(g.st, g.res), LAMBDA arg :
         Ret(g.st, [ex EXCEPT !.args[1] = g.ex],
             FreshList([i \in 1..Len(arg) |->
                 [arg[i] EXCEPT !.name = Paren(Lit["timeShift"], arg[i].name),
                                !.start = Sub32(arg[i].start, offs.v),
                                !.stop = Sub32(arg[i].stop, offs.v)]])))))

\* Go's integer division and remainder (toward zero); b # 0
IDiv(a, b) == LET q == Abs(a) \div Abs(b) IN IF (a < 0) = (b < 0) THEN q ELSE -q

IRem(a, b) == a - b * IDiv(a, b)

\* One series of holtWintersForecast.  holtwinters.Forecast is not part of
\* expr.go: its predictions are unknown values, and whether it fails is
\* st.forecastOk.
holtWintersBad(st, a, f, u) ==
    \/ a.step = 0
    \/ Len(Vals(st, a)) - IDiv(Sub32(u, f), a.step) < 0
    \/ Len(Vals(st, a)) - IDiv(Sub32(u, f), a.step) > Len(Vals(st, a))

\* one series of holtWintersForecast: holtwinters.Forecast is not part of
\* expr.go, and its predictions are unknown values
holtWintersPredict(st, a, f, u) ==
    IF holtWintersBad(st, a, f, u) THEN CbPanic(a)
    ELSE With(IDiv(Sub32(u, f), a.step), LAMBDA n :
              CbRet(MkSeries(Paren(Lit["holtWintersForecast"], a.name),
                             Add32(a.start, WarmUp), a.stop, a.step, 0),
                    [j \in 1..n |-> Ext], [j \in 1..n |-> FALSE]))

evalHoltWintersForecast(ex, f, u, st) ==
    With(getSeriesArgs(ex.args, 1, Sub32(f, WarmUp), u, st), LAMBDA g :
    With([ex EXCEPT !.args = g.args], LAMBDA ex1 :
         IF g.err THEN Ret(g.st, ex1, NilList)
         ELSE
    With([i \in 1..Len(g.items) |-> holtWintersPredict(g.st, g.items[i], f, u)], LAMBDA out :
    With(FirstPanic(out) - 1, LAMBDA m :
         IF m = 0 THEN RetPanic(g.st, ex1)
         ELSE IF ~g.st.forecastOk THEN Ret(g.st, ex1, NilList)
         ELSE IF m < Len(out) THEN RetPanic(Alloc(g.st, out, m), ex1)
         ELSE Ret(Alloc(g.st, out, m), ex1,
                  FreshList([i \in 1..m |->
                                [out[i].r EXCEPT !.buf = Len(g.st.heap) + i]]))))))

\* r.Values and r.IsAbsent after the factor o is multiplied in
multiplyInto(st, r, o) ==
    MkBuf([i \in 1..Len(Vals(st, r)) |->
              IF Absent(st, r)[i] \/ Absent(st, o)[i] THEN NaN
              ELSE FMul(Vals(st, r)[i], Vals(st, o)[i])],
          [i \in 1..Len(Absent(st, r)) |->
              IF i <= Len(Vals(st, r)) THEN Absent(st, r)[i] \/ Absent(st, o)[i]
              ELSE Absent(st, r)[i]])

\* the loop over the other factors, from Go index j on; r shares its buffer
\* with the first factor
RECURSIVE multiplyLoop(_, _, _, _, _, _)
multiplyLoop(ex, j, r, f, u, st) ==
    IF j >= Len(ex.args) THEN Ret(st, ex, FreshList(<<r>>))
    ELSE
    With(getSeriesArg(ex.args[j + 1], f, u, st), LAMBDA g :
    With([ex EXCEPT !.args[j + 1] = g.ex], LAMBDA ex1 :
         IF g.err \/ Len(Items(g.st, g.res)) # 1 THEN Ret(g.st, ex1, NilList)
         ELSE
    With(Items(g.st, g.res)[1], LAMBDA o :
         IF r.step # o.step \/ Len(Vals(g.st, r)) # Len(Vals(g.st, o))
         THEN Ret(g.st, ex1, NilList)
         ELSE IF \/ Len(Absent(g.st, r)) < Len(Vals(g.st, r))
                 \/ Len(Absent(g.st, o)) < Len(Vals(g.st, r))
              THEN RetPanic(g.st, ex1)
         ELSE multiplyLoop(ex1, j + 1, r, f, u,
                           [g.st EXCEPT !.heap[r.buf] = multiplyInto(g.st, r, o)]))))

evalMultiplySeries(ex, f, u, st) ==
    With(getSeriesArg(ex.args[1], f, u, st), LAMBDA g :
    With([ex EXCEPT !.args[1] = g.ex], LAMBDA ex1 :
         IF g.err \/ Len(Items(g.st, g.res)) # 1 THEN Ret(g.st, ex1, NilList)
         ELSE multiplyLoop(ex1, 1,
                           [Items(g.st, g.res)[1] EXCEPT
                               !.name = Paren(Lit["multiplySeries"], ex.argString)],
                           f, u, g.st)))

(***************************************************************************)
(* Sorting.  sort.Sort on fewer than 7 elements is an insertion sort; the  *)
(* elements are [val, s] pairs (byVals) or series compared by name.        *)
(***************************************************************************)
SwapAt(seq, i, j) == [seq EXCEPT ![i] = seq[j], ![j] = seq[i]]

\* byVals.Less is "greater than"; ByName.Less compares the names
sortLess(mode, x, y) ==
    IF mode = "byVals" THEN FGt(x.val, y.val) ELSE StrLess(x.s.name, y.s.name)

RECURSIVE sinkDown(_, _, _)
sinkDown(seq, j, mode) ==
    IF j > 1 /\ sortLess(mode, seq[j], seq[j - 1])
    THEN sinkDown(SwapAt(seq, j, j - 1), j - 1, mode)
    ELSE seq

RECURSIVE insertionSort(_, _, _)
insertionSort(seq, i, mode) ==
    IF i > Len(seq) THEN seq ELSE insertionSort(sinkDown(seq, i, mode), i + 1, mode)

\* the series of list l, in place, become sorted
StoreSorted(st, l, sorted) ==
    IF l.homed
    THEN [st |-> [st EXCEPT !.vm[l.home] = sorted \o Drop(@, l.len)], res |-> l]
    ELSE [st |-> st, res |-> FreshList(sorted)]

RECURSIVE FMax(_)
FMax(vs) ==
    IF vs = <<>> THEN Inf(-1)
    ELSE With(FMax(Take(vs, Len(vs) - 1)),
              LAMBDA m : IF FGt(vs[Len(vs)], m) THEN vs[Len(vs)] ELSE m)

RECURSIVE FMin(_)
FMin(vs) ==
    IF vs = <<>> THEN Inf(1)
    ELSE With(FMin(Take(vs, Len(vs) - 1)),
              LAMBDA m : IF FLt(vs[Len(vs)], m) THEN vs[Len(vs)] ELSE m)

RECURSIVE SplitAt(_, _)
\* strings.Split(s, c) for a one-byte separator
SplitAt(s, c) ==
    IF \A i \in 1..Len(s) : s[i] # c THEN <<s>>
    ELSE With(SetMin({i \in 1..Len(s) : s[i] = c}), LAMBDA h :
              <<Take(s, h - 1)>> \o SplitAt(Drop(s, h), c))

RECURSIVE Join(_, _)
Join(parts, sep) ==
    IF parts = <<>> THEN <<>>
    ELSE IF Len(parts) = 1 THEN parts[1]
    ELSE parts[1] \o sep \o Join(Tail(parts), sep)

RECURSIVE SortFloats(_)
\* the values in ascending order
SortFloats(vs) ==
    IF vs = <<>> THEN <<>>
    ELSE With(CHOOSE i \in 1..Len(vs) : \A j \in 1..Len(vs) : ~FLt(vs[j], vs[i]), LAMBDA i :
              <<vs[i]>> \o SortFloats(Take(vs, i - 1) \o Drop(vs, i)))

\* the loop of percentile over data[0:length]: [top, secondTop]
RECURSIVE topTwo(_, _, _)
topTwo(data, top, secondTop) ==
    IF data = <<>> THEN [top |-> top, secondTop |-> secondTop]
    ELSE IF FGt(data[1], top) THEN topTwo(Tail(data), data[1], top)
    ELSE IF FGt(data[1], secondTop) THEN topTwo(Tail(data), top, data[1])
    ELSE topTwo(Tail(data), top, secondTop)

\* quickselect.Float64QuickSelect(data, length) leaves the length smallest
\* values in data[0:length]
percentile(data, percent, interpolate) ==
    IF Len(data) = 0 \/ FLt(percent, FInt(0)) \/ FGt(percent, FInt(100)) THEN NaN
    ELSE IF Len(data) = 1 THEN data[1]
    ELSE
    With(FDiv(FMul(FInt(Len(data) - 1), percent), FInt(100)), LAMBDA k :
    With(topTwo(Take(SortFloats(data), CeilInt(k) + 1), Inf(-1), Inf(-1)), LAMBDA t :
    With(FSub(k, FInt(Trunc(k))), LAMBDA remainder :
         IF FEq(remainder, FInt(0)) \/ ~interpolate THEN t.top
         ELSE FAdd(FMul(t.top, remainder), FMul(t.secondTop, FSub(FInt(1), remainder))))))

\* the default case of summarizeValues: strings.Split(f, "p")[1] is out of
\* range when f holds no "p"
summarizePercentile(f, vs) ==
    With(SplitAt(f, "p"), LAMBDA parts :
         IF Len(parts) < 2 THEN [v |-> FInt(0), panic |-> TRUE]
         ELSE With(ParseFloat(parts[2]), LAMBDA pf :
                   IF pf.err = "nil" THEN [v |-> percentile(vs, pf.v, TRUE), panic |-> FALSE]
                   ELSE [v |-> FInt(0), panic |-> FALSE]))

\* [v, panic]
summarizeValues(f, vs) ==
    IF Len(vs) = 0 THEN [v |-> NaN, panic |-> FALSE]
    ELSE IF f = Lit["sum"] THEN [v |-> FSum(vs), panic |-> FALSE]
    ELSE IF f = Lit["avg"] THEN [v |-> FAvg(vs), panic |-> FALSE]
    ELSE IF f = Lit["max"] THEN [v |-> FMax(vs), panic |-> FALSE]
    ELSE IF f = Lit["min"] THEN [v |-> FMin(vs), panic |-> FALSE]
    ELSE IF f = Lit["last"] THEN [v |-> vs[Len(vs)], panic |-> FALSE]
    ELSE summarizePercentile(f, vs)

sortKey(target, vs) ==
    IF target = Lit["sortByTotal"] THEN summarizeValues(Lit["sum"], vs).v
    ELSE IF target = Lit["sortByMaxima"] THEN summarizeValues(Lit["max"], vs).v
    ELSE FDiv(FInt(1), summarizeValues(Lit["min"], vs).v)

\* sort.Sort of the series arg, paired with their keys, in the slice of list l
sortInPlace(st, l, pairs, mode) ==
    With(insertionSort(pairs, 2, mode), LAMBDA sorted :
         StoreSorted(st, l, [i \in 1..Len(sorted) |-> sorted[i].s]))

evalSortByVals(ex, f, u, st) ==
    With(getSeriesArg(ex.args[1], f, u, st), LAMBDA g :
    With([ex EXCEPT !.args[1] = g.ex], LAMBDA ex1 :
         IF g.err THEN Ret(g.st, ex1, NilList)
         ELSE
    With(Items(g.st, g.res), LAMBDA arg :
    With(sortInPlace(g.st, g.res,
                     [i \in 1..Len(arg) |->
                         [val |-> sortKey(ex.target, Vals(g.st, arg[i])), s |-> arg[i]]],
                     "byVals"),
         LAMBDA w : Ret(w.st, ex1, w.res)))))

evalSortByName(ex, f, u, st) ==
    With(getSeriesArg(ex.args[1], f, u, st), LAMBDA g :
    With([ex EXCEPT !.args[1] = g.ex], LAMBDA ex1 :
         IF g.err THEN Ret(g.st, ex1, NilList)
         ELSE
    With(Items(g.st, g.res), LAMBDA arg :
    With(sortInPlace(g.st, g.res, [i \in 1..Len(arg) |-> [val |-> NaN, s |-> arg[i]]],
                     "byName"),
         LAMBDA w : Ret(w.st, ex1, w.res)))))

\* the loop of extractMetric; start and end are Go indices
RECURSIVE extractLoop(_, _, _, _)
extractLoop(m, start, end, curlyBraces) ==
    IF end >= Len(m) THEN SubSeq(m, start + 1, end)
    ELSE IF m[end + 1] = "{" THEN extractLoop(m, start, end + 1, curlyBraces + 1)
    ELSE IF m[end + 1] = "}" THEN extractLoop(m, start, end + 1, curlyBraces - 1)
    ELSE IF m[end + 1] = ")" \/ (m[end + 1] = "," /\ curlyBraces = 0)
         THEN SubSeq(m, start + 1, end)
    ELSE IF ~(isNameChar(m[end + 1]) \/ m[end + 1] = ",")
         THEN extractLoop(m, end + 1, end + 1, curlyBraces)
    ELSE extractLoop(m, start, end + 1, curlyBraces)

extractMetric(m) == extractLoop(m, 0, 0, 0)

contains(a, i) == \E j \in 1..Len(a) : a[j] = i

(***************************************************************************)
(* A map[string][]*metricData is the sequence of its [key, members] in     *)
(* order of first insertion; ranging over it visits them in the order      *)
(* st.order, which the evaluation does not control.                        *)
(***************************************************************************)
AddToGroup(groups, k, a) ==
    IF \E i \in 1..Len(groups) : groups[i].key = k
    THEN [i \in 1..Len(groups) |->
            IF groups[i].key = k THEN [groups[i] EXCEPT !.members = Append(@, a)]
            ELSE groups[i]]
    ELSE Append(groups, [key |-> k, members |-> <<a>>])

RECURSIVE MakeGroups(_, _, _)
MakeGroups(args, keys, groups) ==
    IF args = <<>> THEN groups
    ELSE MakeGroups(Tail(args), Tail(keys), AddToGroup(groups, keys[1], args[1]))

RangeOrder(st, groups) ==
    With(SelectSeq(st.order, LAMBDA x : x <= Len(groups)), LAMBDA o :
         [i \in 1..Len(groups) |-> IF i <= Len(o) THEN groups[o[i]] ELSE groups[i]])

\* the loop over the groups of groupByNode: each callback runs on a stub
\* ValuesMap holding only its group
RECURSIVE groupByNodeLoop(_, _, _, _, _, _)
groupByNodeLoop(groups, callback, f, u, st, results) ==
    IF groups = <<>> THEN [st |-> st, res |-> FreshList(results)]
    ELSE
    With(parseExpr(callback \o <<"(">> \o groups[1].key \o <<")">>), LAMBDA nexpr :
         IF nexpr.err # "nil" THEN [st |-> st, res |-> NilList]
         ELSE
    With(evalExpr(nexpr.ex, f, u,
                  [st EXCEPT !.vm = (MkRequest(groups[1].key, f, u) :> groups[1].members),
                             !.nested = TRUE]),
         LAMBDA r :
    With([r.st EXCEPT !.vm = st.vm, !.nested = st.nested], LAMBDA back :
         IF r.st.panic THEN [st |-> back, res |-> NilList]
         ELSE groupByNodeLoop(Tail(groups), callback, f, u, back,
                              results \o Items(r.st, r.res)))))

\* strings.Split(metric, ".") of the metric of a series
metricNodes(a) == SplitAt(extractMetric(a.name), <<".">>[1])

evalGroupByNode(ex, f, u, st) ==
    With(getSeriesArg(ex.args[1], f, u, st), LAMBDA g :
    With([ex EXCEPT !.args[1] = g.ex], LAMBDA ex1 :
         IF g.err THEN Ret(g.st, ex1, NilList)
         ELSE
    With(getIntArg(ex, 1), LAMBDA field :
    With(getStringArg(ex, 2), LAMBDA callback :
         IF field.err # "nil" \/ callback.err # "nil" THEN Ret(g.st, ex1, NilList)
         ELSE
    With(Items(g.st, g.res), LAMBDA args :
    With([i \in 1..Len(args) |-> metricNodes(args[i])], LAMBDA nodes :
         IF \E i \in 1..Len(args) : field.v < 0 \/ field.v >= Len(nodes[i])
         THEN RetPanic(g.st, ex1)
         ELSE
    With(groupByNodeLoop(RangeOrder(g.st,
                                    MakeGroups(args,
                                               [i \in 1..Len(args) |-> nodes[i][field.v + 1]],
                                               <<>>)),
                         callback.v, f, u, g.st, <<>>),
         LAMBDA out : Ret(out.st, ex1, out.res))))))))

\* the key of a series for the *WithWildcards functions: its nodes without
\* those at the positions in fields
wildcardNode(a, fields) ==
    With(metricNodes(a), LAMBDA nodes :
    With(SelectSeq([i \in 1..Len(nodes) |-> i], LAMBDA i : ~contains(fields, i - 1)),
         LAMBDA idx : Join([j \in 1..Len(idx) |-> nodes[idx[j]]], <<".">>)))

\* the values of the members that are present at index i
wildcardAt(st, members, i) ==
    With(SelectSeq(members, LAMBDA s : i <= Len(Vals(st, s)) /\ ~Absent(st, s)[i]),
         LAMBDA p : [j \in 1..Len(p) |-> Vals(st, p[j])[i]])

\* a member of the group cannot be read, or written to the result, at an index
wildcardBad(st, members) ==
    \E j \in 1..Len(members) : \E i \in 1..Len(Vals(st, members[j])) :
        \/ Len(Absent(st, members[j])) < i
        \/ ~Absent(st, members[j])[i] /\ i > Len(Vals(st, members[1]))

\* the reduction of one group
wildcardGroup(st, members, isAvg) ==
    IF wildcardBad(st, members) THEN CbPanic(members[1])
    ELSE With([i \in 1..Len(Vals(st, members[1])) |-> wildcardAt(st, members, i)], LAMBDA at :
              CbRet(members[1],
                    [i \in 1..Len(at) |->
                        IF at[i] = <<>> THEN FInt(0)
                        ELSE IF isAvg THEN FDiv(FSum(at[i]), FInt(Len(at[i])))
                        ELSE FSum(at[i])],
                    [i \in 1..Len(at) |-> at[i] = <<>>]))

evalWithWildcards(ex, f, u, st, isAvg) ==
    With(getSeriesArg(ex.args[1], f, u, st), LAMBDA g :
    With([ex EXCEPT !.args[1] = g.ex], LAMBDA ex1 :
    With(getIntArgs(ex, 1), LAMBDA fields :
         IF g.err \/ fields.err # "nil" THEN Ret(g.st, ex1, NilList)
         ELSE
    With(Items(g.st, g.res), LAMBDA args :
    With(RangeOrder(g.st, MakeGroups(args,
                                     [i \in 1..Len(args) |-> wildcardNode(args[i], fields.v)],
                                     <<>>)),
         LAMBDA groups :
    With([i \in 1..Len(groups) |-> wildcardGroup(g.st, groups[i].members, isAvg)],
         LAMBDA out :
    With(FirstPanic(out) - 1, LAMBDA m :
         IF m < Len(out) THEN RetPanic(Alloc(g.st, out, m), ex1)
         ELSE Ret(Alloc(g.st, out, m), ex1,
                  FreshList([i \in 1..m |->
                      [out[i].r EXCEPT !.name = Paren(ex.target, groups[i].key),
                                       !.buf = Len(g.st.heap) + i]])))))))))

evalSumSeriesWithWildcards(ex, f, u, st) == evalWithWildcards(ex, f, u, st, FALSE)

evalAverageSeriesWithWildcards(ex, f, u, st) == evalWithWildcards(ex, f, u, st, TRUE)

(***************************************************************************)
(* Windowed and movingAverage                                              *)
(***************************************************************************)
NewWindowed(size) ==
    [data |-> [i \in 1..size |-> FInt(0)], head |-> 0, length |-> 0,
     sum |-> FInt(0), nans |-> 0]

\* Windowed.Push; len(w.data) > 0
Push(w, n) ==
    With(w.data[w.head + 1], LAMBDA old :
         [data |-> [w.data EXCEPT ![w.head + 1] = n],
          head |-> IF w.head + 1 >= Len(w.data) THEN 0 ELSE w.head + 1,
          length |-> w.length + 1,
          sum |-> IF IsNaN(n) THEN (IF IsNaN(old) THEN w.sum ELSE FSub(w.sum, old))
                  ELSE FAdd(IF IsNaN(old) THEN w.sum ELSE FSub(w.sum, old), n),
          nans |-> w.nans - (IF IsNaN(old) THEN 1 ELSE 0) + (IF IsNaN(n) THEN 1 ELSE 0)])

WindowedLen(w) == IF w.length < Len(w.data) THEN w.length - w.nans ELSE Len(w.data) - w.nans

Mean(w) == FDiv(w.sum, FInt(WindowedLen(w)))

\* a loop that pushes the sample before it takes the mean (a faulty variant)
RECURSIVE movingAverageLoopPushFirst(_, _, _, _, _)
movingAverageLoopPushFirst(vals, abs, i, w, windowSize) ==
    IF i >= Len(vals) THEN MkBuf(<<>>, <<>>)
    ELSE
    With(Push(w, IF abs[i + 1] THEN NaN ELSE vals[i + 1]), LAMBDA w1 :
    With(movingAverageLoopPushFirst(vals, abs, i + 1, w1, windowSize), LAMBDA rest :
         IF i < windowSize \/ IsNaN(Mean(w1))
         THEN MkBuf(<<FInt(0)>> \o rest.vals, <<TRUE>> \o rest.abs)
         ELSE MkBuf(<<Mean(w1)>> \o rest.vals, <<FALSE>> \o rest.abs)))

\* the loop of movingAverage from Go index i on: [vals, abs] of r
RECURSIVE movingAverageLoop(_, _, _, _, _)
movingAverageLoop(vals, abs, i, w, windowSize) ==
    IF i >= Len(vals) THEN MkBuf(<<>>, <<>>)
    ELSE
    With(movingAverageLoop(vals, abs, i + 1,
                           Push(w, IF abs[i + 1] THEN NaN ELSE vals[i + 1]), windowSize),
         LAMBDA rest :
         IF i < windowSize \/ IsNaN(Mean(w))
         THEN MkBuf(<<FInt(0)>> \o rest.vals, <<TRUE>> \o rest.abs)
         ELSE MkBuf(<<Mean(w)>> \o rest.vals, <<FALSE>> \o rest.abs))

\* the window argument of movingAverage: a number of points, or an interval
movingAverageArg(ex) ==
    IF ex.args[2].etype = "etConst" THEN getIntArg(ex, 1)
    ELSE IF ex.args[2].etype = "etString" THEN getIntervalArg(ex, 1, 1)
    ELSE [v |-> 0, err |-> "ErrBadType"]

\* one series of movingAverage
movingAverageFunc(st, a, windowSize, f, u) ==
    IF \/ Len(Absent(st, a)) < Len(Vals(st, a))
       \/ windowSize = 0 /\ Len(Vals(st, a)) > 0
    THEN CbPanic(a)
    ELSE With(movingAverageLoop(Vals(st, a), Absent(st, a), 0, NewWindowed(windowSize),
                                windowSize),
              LAMBDA b :
              CbRet([a EXCEPT !.name = Lit["movingAverage"] \o <<"(">> \o a.name
                                       \o <<",">> \o Itoa(windowSize) \o <<")">>,
                              !.start = f, !.stop = u],
                    b.vals, b.abs))

evalMovingAverage(ex, f, u, st) ==
    IF Len(ex.args) < 2 THEN RetPanic(st, ex)
    ELSE
    With(movingAverageArg(ex), LAMBDA n :
         IF n.err # "nil" THEN Ret(st, ex, NilList)
         ELSE
    With(getSeriesArg(ex.args[1], f, u, st), LAMBDA g :
    With([ex EXCEPT !.args[1] = g.ex], LAMBDA ex1 :
         IF g.err THEN Ret(g.st, ex1, NilList)
         ELSE
    With(Items(g.st, g.res), LAMBDA arg :
         IF ex.args[2].etype = "etString" /\ arg[1].step = 0 THEN RetPanic(g.st, ex1)
         ELSE
    With(IF ex.args[2].etype = "etString" THEN IDiv(n.v, arg[1].step) ELSE n.v,
         LAMBDA windowSize :
         IF windowSize < 0 THEN RetPanic(g.st, ex1)
         ELSE
    With([i \in 1..Len(arg) |-> movingAverageFunc(g.st, arg[i], windowSize, f, u)],
         LAMBDA out :
    With(FirstPanic(out) - 1, LAMBDA m :
         IF m < Len(out) THEN RetPanic(Alloc(g.st, out, m), ex1)
         ELSE Ret(Alloc(g.st, out, m), ex1,
                  FreshList([i \in 1..m |->
                                [out[i].r EXCEPT !.buf = Len(g.st.heap) + i]])))))))))

(***************************************************************************)
(* summarize                                                               *)
(***************************************************************************)
\* a * b modulo d without leaving 32 bits; 0 <= a, b < d < 2^30
RECURSIVE MulMod(_, _, _)
MulMod(a, b, d) ==
    IF b = 0 THEN 0
    ELSE LET h == MulMod((a + a) % d, b \div 2, d)
         IN  IF b % 2 = 1 THEN (h + a) % d ELSE h

\* days from the zero time.Time to the Unix epoch
EpochDays == 719162

\* int32(time.Unix(t, 0).Truncate(d seconds).Unix()): Truncate rounds down to a
\* multiple of d since the zero Time and leaves t alone when d <= 0
truncateTime(t, d) ==
    IF d <= 0 THEN t
    ELSE Sub32(t, ((t % d) + MulMod(EpochDays % d, 86400 % d, d)) % d)

alignToBucketSize(start, stop, bucketSize) ==
    With(truncateTime(stop, bucketSize), LAMBDA newStop :
         [start |-> truncateTime(start, bucketSize),
          stop |-> IF stop # newStop THEN Add32(newStop, bucketSize) ELSE newStop])

\* bucketSize # 0
getBuckets(start, stop, bucketSize) ==
    CeilInt(FDiv(FInt(Sub32(stop, start)), FInt(bucketSize)))

\* a bucket is complete: its value is written at r.Values[ridx]
summarizeFlush(c, bucket, w) ==
    With(summarizeValues(c.f, bucket), LAMBDA rv :
         IF rv.panic \/ w.ridx >= c.buckets THEN [w EXCEPT !.panic = TRUE]
         ELSE [w EXCEPT !.vals = Append(@, rv.v), !.abs = Append(@, IsNaN(rv.v)),
                        !.ridx = @ + 1, !.items = 0])

\* the last partial bucket
summarizeLast(c, bucket, w) ==
    IF w.items = 0 THEN w
    ELSE With(summarizeValues(c.f, bucket), LAMBDA rv :
              IF rv.panic \/ w.ridx >= c.buckets THEN [w EXCEPT !.panic = TRUE]
              ELSE [w EXCEPT !.vals = Append(@, IF IsNaN(rv.v) THEN FInt(0) ELSE rv.v),
                             !.abs = Append(@, IsNaN(rv.v))])

\* the loop of summarize over arg.Values from Go index i on, and the last
\* partial bucket: [vals, abs, ridx, items, panic], vals and abs being the
\* buckets written so far
RECURSIVE summarizeLoop(_, _, _, _, _, _)
summarizeLoop(c, i, t, bucketEnd, bucket, w) ==
    IF i >= Len(c.vals) THEN summarizeLast(c, bucket, w)
    ELSE IF Len(c.abs) <= i THEN [w EXCEPT !.panic = TRUE]
    ELSE
    With(IF c.abs[i + 1] THEN bucket ELSE Append(bucket, c.vals[i + 1]), LAMBDA bucket1 :
    With(Add32(t, c.step), LAMBDA t1 :
         IF t1 >= c.stop
         THEN summarizeLoop([c EXCEPT !.vals = Take(@, i + 1)], i + 1, t1, bucketEnd, bucket1,
                            [w EXCEPT !.items = @ + 1])
         ELSE IF t1 >= bucketEnd
         THEN With(summarizeFlush(c, bucket1, w), LAMBDA w1 :
                   IF w1.panic THEN w1
                   ELSE summarizeLoop(c, i + 1, t1, Add32(bucketEnd, c.bucketSize), <<>>, w1))
         ELSE summarizeLoop(c, i + 1, t1, bucketEnd, bucket1, [w EXCEPT !.items = @ + 1])))

summarizeName(ex, a) ==
    With(Lit["summarize"] \o <<"(">> \o a.name \o <<",", "'">> \o ex.args[2].valStr \o <<"'">>,
         LAMBDA head :
         IF Len(ex.args) = 2 THEN head \o <<")">>
         ELSE IF Len(ex.args) = 3
              THEN head \o <<",", "'">> \o ex.args[3].valStr \o <<"'", ")">>
         ELSE IF Len(ex.args) = 4
              THEN head \o <<",", "'">> \o ex.args[3].valStr \o <<"'", ",">>
                        \o ex.args[4].target \o <<")">>
         ELSE <<>>)

\* one series of summarize; c holds the arguments and the aligned window
summarizeFunc(ex, st, a, c) ==
    IF a.step = 0 \/ IDiv(c.bucketSize, a.step) < 0 THEN CbPanic(a)
    ELSE With(summarizeLoop([c EXCEPT !.vals = Vals(st, a), !.abs = Absent(st, a),
                                      !.step = a.step],
                            0, a.start, Add32(c.start, c.bucketSize), <<>>,
                            [vals |-> <<>>, abs |-> <<>>, ridx |-> 0, items |-> 0,
                             panic |-> FALSE]),
              LAMBDA w :
              IF w.panic THEN CbPanic(a)
              ELSE CbRet(MkSeries(summarizeName(ex, a), c.start, c.stop, c.bucketSize, 0),
                         w.vals \o [j \in 1..(c.buckets - Len(w.vals)) |-> FInt(0)],
                         w.abs \o [j \in 1..(c.buckets - Len(w.abs)) |-> FALSE]))

\* the window of the result of summarize
summarizeWindow(a, bucketSize, alignToFrom) ==
    IF alignToFrom THEN [start |-> a.start, stop |-> a.stop]
    ELSE alignToBucketSize(a.start, a.stop, bucketSize)

evalSummarize(ex, f, u, st) ==
    With(getSeriesArg(ex.args[1], f, u, st), LAMBDA g :
    With([ex EXCEPT !.args[1] = g.ex], LAMBDA ex1 :
         IF g.err THEN Ret(g.st, ex1, NilList)
         ELSE
    With(getIntervalArg(ex, 1, 1), LAMBDA bucketSize :
    With(getStringArgDefault(ex, 2, Lit["sum"]), LAMBDA summarizeFunction :
    With(getBoolArgDefault(ex, 3, FALSE), LAMBDA alignToFrom :
         IF bucketSize.err # "nil" \/ summarizeFunction.err # "nil"
            \/ alignToFrom.err # "nil" THEN Ret(g.st, ex1, NilList)
         ELSE IF bucketSize.v = 0 THEN RetPanic(g.st, ex1)
         ELSE
    With(Items(g.st, g.res), LAMBDA args :
    With(summarizeWindow(args[1], bucketSize.v, alignToFrom.v), LAMBDA al :
    With(getBuckets(al.start, al.stop, bucketSize.v), LAMBDA buckets :
         IF buckets < 0 THEN RetPanic(g.st, ex1)
         ELSE
    With([i \in 1..Len(args) |->
             summarizeFunc(ex, g.st, args[i],
                           [f |-> summarizeFunction.v, vals |-> <<>>, abs |-> <<>>,
                            step |-> 0, start |-> al.start, stop |-> al.stop,
                            bucketSize |-> bucketSize.v, buckets |-> buckets])],
         LAMBDA out :
    With(FirstPanic(out) - 1, LAMBDA m :
         IF m < Len(out) THEN RetPanic(Alloc(g.st, out, m), ex1)
         ELSE Ret(Alloc(g.st, out, m), ex1,
                  FreshList([i \in 1..m |->
                                [out[i].r EXCEPT !.buf = Len(g.st.heap) + i]]))))))))))))

(***************************************************************************)
(* constantLine, ensure, removeBelowValue, removeAboveValue, nPercentile   *)
(***************************************************************************)
\* the least k with a * 10^k whole, for a = n / d a finite decimal
RECURSIVE DecScale(_, _, _)
DecScale(n, d, k) == IF (n * Pow10(k)) % d = 0 THEN k ELSE DecScale(n, d, k + 1)

RECURSIVE StripZeros(_)
StripZeros(ds) ==
    IF Len(ds) > 1 /\ ds[Len(ds)] = "0" THEN StripZeros(Take(ds, Len(ds) - 1)) ELSE ds

Zeros(n) == [i \in 1..n |-> "0"]

\* strconv's %e and %f for the shortest digits ds of a value 0.ds * 10^dp:
\* %g takes %e when the exponent is below -4 or at least 6
FormatDigits(ds, dp) ==
    IF dp - 1 < -4 \/ dp - 1 >= 6
    THEN <<ds[1]>> \o (IF Len(ds) > 1 THEN <<".">> \o Tail(ds) ELSE <<>>) \o <<"e">>
         \o (IF dp - 1 < 0 THEN <<"-">> ELSE <<"+">>)
         \o (IF Abs(dp - 1) < 10 THEN <<"0">> ELSE <<>>) \o NatStr(Abs(dp - 1))
    ELSE IF dp <= 0 THEN <<"0", ".">> \o Zeros(-dp) \o ds
    ELSE IF Len(ds) <= dp THEN ds \o Zeros(dp - Len(ds))
    ELSE Take(ds, dp) \o <<".">> \o Drop(ds, dp)

\* fmt.Sprintf("%g", v) of a float64 that was parsed from decimal digits
FormatG(v) ==
    IF IsNaN(v) THEN Lit["NaN"]
    ELSE IF IsInf(v) THEN (IF v.n > 0 THEN Lit["+Inf"] ELSE Lit["-Inf"])
    ELSE IF v.n = 0 THEN <<"0">>
    ELSE With(DecScale(Abs(v.n), v.d, 0), LAMBDA k :
         With(NatStr((Abs(v.n) * Pow10(k)) \div v.d), LAMBDA ds :
              (IF v.n < 0 THEN <<"-">> ELSE <<>>)
              \o FormatDigits(StripZeros(ds), Len(ds) - k)))

evalConstantLine(ex, f, u, st) ==
    With(getFloatArg(ex, 0), LAMBDA value :
         IF value.err # "nil" THEN Ret(st, ex, NilList)
         ELSE Ret([st EXCEPT !.heap = Append(@, MkBuf(<<value.v, value.v>>, <<FALSE, FALSE>>))],
                  ex,
                  FreshList(<<MkSeries(FormatG(value.v), f, u, Sub32(u, f),
                                       Len(st.heap) + 1)>>)))

\* the error of getSeriesArg is dropped; make panics on a negative length
evalEnsure(ex, f, u, st) ==
    With(getSeriesArg(ex.args[1], f, u, st), LAMBDA g :
    With([ex EXCEPT !.args[1] = g.ex], LAMBDA ex1 :
         IF g.st.panic THEN Ret(g.st, ex1, NilList)
         ELSE IF g.err \/ g.res.len = 0
         THEN With(Add32(IDiv(Sub32(u, f), 60), 1), LAMBDA n :
                   IF n < 0 THEN RetPanic(g.st, ex1)
                   ELSE Ret([g.st EXCEPT !.heap =
                                Append(@, MkBuf([i \in 1..n |-> FInt(0)],
                                                [i \in 1..n |-> TRUE]))],
                            ex1,
                            FreshList(<<MkSeries(Lit["unknown"], f, u, 60,
                                                 Len(g.st.heap) + 1)>>)))
         ELSE Ret(g.st, ex1, g.res)))

\* the condition closures of removeBelowValue and removeAboveValue
removeFunc(condition, v, threshold) ==
    IF condition = "below" THEN FLt(v, threshold) ELSE FGt(v, threshold)

\* the Values and IsAbsent of the copy; reading a.IsAbsent[i] beyond its
\* length panics
removeByValue(st, a, threshold, condition) ==
    IF Len(Absent(st, a)) < Len(Vals(st, a)) THEN CbPanic(a)
    ELSE CbRet(a,
               [i \in 1..Len(Vals(st, a)) |->
                   IF Absent(st, a)[i] \/ removeFunc(condition, Vals(st, a)[i], threshold)
                   THEN NaN ELSE Vals(st, a)[i]],
               [i \in 1..Len(Vals(st, a)) |->
                   Absent(st, a)[i] \/ removeFunc(condition, Vals(st, a)[i], threshold)])

\* removeBelowValue and removeAboveValue
evalRemoveByValue(ex, f, u, st, condition) ==
    With(getSeriesArg(ex.args[1], f, u, st), LAMBDA g :
    With([ex EXCEPT !.args[1] = g.ex], LAMBDA ex1 :
         IF g.err THEN Ret(g.st, ex1, NilList)
         ELSE
    With(getFloatArg(ex, 1), LAMBDA threshold :
         IF threshold.err # "nil" THEN Ret(g.st, ex1, NilList)
         ELSE
    With(Items(g.st, g.res), LAMBDA args :
    With([i \in 1..Len(args) |-> removeByValue(g.st, args[i], threshold.v, condition)],
         LAMBDA out :
    With(FirstPanic(out) - 1, LAMBDA m :
         IF m < Len(args) THEN RetPanic(Alloc(g.st, out, m), ex1)
         ELSE Ret(Alloc(g.st, out, m), ex1,
                  FreshList([i \in 1..m |->
                      [args[i] EXCEPT
                          !.name = ex.target \o <<"(">> \o args[i].name \o <<",", " ">>
                                   \o FormatG(threshold.v) \o <<")">>,
                          !.buf = Len(g.st.heap) + i]]))))))))

\* the values of a at the indexes where IsAbsent is false; reading
\* a.Values[i] beyond its length panics
nPercentileValues(st, a) ==
    With({i \in 1..Len(Absent(st, a)) : ~Absent(st, a)[i]}, LAMBDA present :
         IF \E i \in present : i > Len(Vals(st, a)) THEN [vs |-> <<>>, panic |-> TRUE]
         ELSE [vs |-> SelectSeq([i \in 1..Len(Vals(st, a)) |-> i], LAMBDA i : i \in present),
               panic |-> FALSE])

evalNPercentile(ex, f, u, st) ==
    With(getSeriesArg(ex.args[1], f, u, st), LAMBDA g :
    With([ex EXCEPT !.args[1] = g.ex], LAMBDA ex1 :
         IF g.err THEN Ret(g.st, ex1, NilList)
         ELSE
    With(getFloatArg(ex, 1), LAMBDA percent :
         IF percent.err # "nil" THEN Ret(g.st, ex1, NilList)
         ELSE
    With(Items(g.st, g.res), LAMBDA arg :
    With([i \in 1..Len(arg) |->
             With(nPercentileValues(g.st, arg[i]), LAMBDA p :
                  IF p.panic THEN CbPanic(arg[i])
                  ELSE With(percentile([j \in 1..Len(p.vs) |-> Vals(g.st, arg[i])[p.vs[j]]],
                                       percent.v, TRUE),
                            LAMBDA value :
                            CbRet(arg[i],
                                  [j \in 1..Len(Vals(g.st, arg[i])) |-> value],
                                  [j \in 1..Len(Vals(g.st, arg[i])) |-> FALSE])))],
         LAMBDA out :
    With(FirstPanic(out) - 1, LAMBDA m :
         IF m < Len(arg) THEN RetPanic(Alloc(g.st, out, m), ex1)
         ELSE Ret(Alloc(g.st, out, m), ex1,
                  FreshList([i \in 1..m |->
                      [arg[i] EXCEPT
                          !.name = ex.target \o <<"(">> \o arg[i].name \o <<",">>
                                   \o FormatG(percent.v) \o <<")">>,
                          !.buf = Len(g.st.heap) + i]]))))))))

\* getTotal of asPercent(seriesList): the sum of the present samples at index
\* i, NaN when there is none
asPercentSum(st, arg, i) ==
    With(PresentAt(st, arg, i), LAMBDA vs : IF Len(vs) = 0 THEN NaN ELSE FSum(vs))

\* a getTotal that reads the total series whether the sample is absent or not
asPercentOfAny(st, total, i) ==
    IF Len(Vals(st, total)) >= i THEN Vals(st, total)[i] ELSE NaN

\* getTotal of asPercent(seriesList, totalSeries)
asPercentOf(st, total, i) ==
    IF Len(Absent(st, total)) >= i /\ Absent(st, total)[i] THEN NaN
    ELSE IF Len(Vals(st, total)) >= i THEN Vals(st, total)[i]
    ELSE NaN

\* the loops of asPercent over the indexes of results[0]: totals[i] is
\* getTotal(i); the samples beyond stay as make left them
asPercentFill(ex, st, arg, names, totals) ==
    IF \E i \in 1..Len(totals) : \E j \in 1..Len(arg) :
          Len(Absent(st, arg[j])) < i \/ Len(Vals(st, arg[j])) < i
    THEN RetPanic(st, ex)
    ELSE Ret([st EXCEPT !.heap = @ \o [j \in 1..Len(arg) |->
                 MkBuf([i \in 1..Len(Vals(st, arg[j])) |->
                           IF i > Len(totals) \/ Absent(st, arg[j])[i] \/ IsNaN(totals[i])
                              \/ FEq(totals[i], FInt(0))
                           THEN FInt(0)
                           ELSE FMul(FDiv(Vals(st, arg[j])[i], totals[i]), FInt(100))],
                       [i \in 1..Len(Vals(st, arg[j])) |->
                           i <= Len(totals)
                           /\ (Absent(st, arg[j])[i] \/ IsNaN(totals[i])
                               \/ FEq(totals[i], FInt(0)))])]],
             ex,
             FreshList([j \in 1..Len(arg) |->
                           [arg[j] EXCEPT !.name = names[j], !.buf = Len(st.heap) + j]]))

asPercentSeries(ex1, f, u, g) ==
    With(getSeriesArg(ex1.args[2], f, u, g.st), LAMBDA gt :
    With([ex1 EXCEPT !.args[2] = gt.ex], LAMBDA ex2 :
         IF gt.err \/ gt.res.len # 1 THEN Ret(gt.st, ex2, NilList)
         ELSE
    With(Items(gt.st, g.res), LAMBDA arg :
    With(IF gt.ex.etype = "etName" THEN gt.ex.target
         ELSE Paren(gt.ex.target, gt.ex.argString), LAMBDA totalString :
         asPercentFill(ex2, gt.st, arg,
                       [j \in 1..Len(arg) |->
                           Lit["asPercent"] \o <<"(">> \o arg[j].name \o <<",">>
                           \o totalString \o <<")">>],
                       [i \in 1..Len(Vals(gt.st, arg[1])) |->
                           asPercentOf(gt.st, Items(gt.st, gt.res)[1], i)])))))

\* strings.IndexAny(s, chars) as a Go index, -1 when there is none
IndexAny(s, chars) ==
    IF \E i \in 1..Len(s) : contains(chars, s[i])
    THEN SetMin({i \in 1..Len(s) : contains(chars, s[i])}) - 1
    ELSE -1

\* compareLess, compareLessEqual, compareGreater, compareGreaterEqual and
\* compareEqual, selected by e.target[index:]
compareFunc(function, a, b) ==
    IF function = Lit["Less"] THEN FLt(a, b)
    ELSE IF function = Lit["LessEqual"] THEN FLe(a, b)
    ELSE IF function = Lit["Greater"] THEN FGt(a, b)
    ELSE IF function = Lit["GreaterEqual"] THEN FGe(a, b)
    ELSE FEq(a, b)

compareName(function) ==
    IF function = Lit["Less"] THEN <<"<">>
    ELSE IF function = Lit["LessEqual"] THEN <<"<", "=">>
    ELSE IF function = Lit["Greater"] THEN <<">">>
    ELSE IF function = Lit["GreaterEqual"] THEN <<">", "=">>
    ELSE <<"=">>

\* gval of the comparators: element 0 of a 2-point line, -1 otherwise
compareGval(st, c) == IF Len(Vals(st, c)) = 2 THEN Vals(st, c)[1] ELSE FInt(-1)

\* operandName; strconv.Itoa(int(gval)) is modelled for finite gval only
compareOperand(st, c) ==
    IF Len(Vals(st, c)) = 2
    THEN (IF compareGval(st, c).k = "num" THEN Itoa(Trunc(compareGval(st, c))) ELSE <<"?">>)
    ELSE c.name

\* sample i of a cannot be compared: a flag or a value of a or c is missing
compareBad(st, a, c, gval, i) ==
    \/ Len(Absent(st, a)) < i
    \/ /\ ~Absent(st, a)[i] /\ gval = FInt(-1)
       /\ \/ Len(Absent(st, c)) < i
          \/ ~Absent(st, c)[i] /\ Len(Vals(st, c)) < i

\* the sample is absent in a or, where the series is read, in c
compareAbsent(st, a, c, gval, i) ==
    Absent(st, a)[i] \/ (gval = FInt(-1) /\ Absent(st, c)[i])

\* the callback of the comparators
compareSeries(st, a, c, function) ==
    With(compareGval(st, c), LAMBDA gval :
         IF \E i \in 1..Len(Vals(st, a)) : compareBad(st, a, c, gval, i) THEN CbPanic(a)
         ELSE CbRet(a,
                    [i \in 1..Len(Vals(st, a)) |->
                        IF compareAbsent(st, a, c, gval, i) THEN FInt(0)
                        ELSE IF compareFunc(function, Vals(st, a)[i],
                                            IF gval # FInt(-1) THEN gval ELSE Vals(st, c)[i])
                        THEN FInt(0) ELSE FInt(1)],
                    [i \in 1..Len(Vals(st, a)) |-> compareAbsent(st, a, c, gval, i)]))

\* checkLess, checkLessEqual, checkGreater, checkGreaterEqual and checkEqual
evalCompare(ex, f, u, st) ==
    IF Len(ex.args) < 2 THEN Ret(st, ex, NilList)
    ELSE
    With(getSeriesArg(ex.args[2], f, u, st), LAMBDA gc :
    With([ex EXCEPT !.args[2] = gc.ex], LAMBDA ex1 :
         IF gc.err \/ gc.res.len # 1 THEN Ret(gc.st, ex1, NilList)
         ELSE
    With(getSeriesArg(ex1.args[1], f, u, gc.st), LAMBDA g :
    With([ex1 EXCEPT !.args[1] = g.ex], LAMBDA ex2 :
         IF g.err THEN Ret(g.st, ex2, NilList)
         ELSE
    With(Items(g.st, g.res), LAMBDA arg :
    With(Items(g.st, gc.res)[1], LAMBDA c :
    With(Drop(ex.target, IndexAny(ex.target, Lit["LGE"])), LAMBDA function :
    With([i \in 1..Len(arg) |-> compareSeries(g.st, arg[i], c, function)], LAMBDA out :
    With(FirstPanic(out) - 1, LAMBDA m :
         IF m < Len(arg) THEN RetPanic(Alloc(g.st, out, m), ex2)
         ELSE Ret(Alloc(g.st, out, m), ex2,
                  FreshList([i \in 1..m |->
                      [arg[i] EXCEPT
                          !.name = arg[i].name \o <<" ">> \o compareName(function)
                                   \o <<" ">> \o compareOperand(g.st, c),
                          !.drawAsInfinite = TRUE,
                          !.secondYAxis = TRUE,
                          !.buf = Len(g.st.heap) + i]])))))))))))

\* maxValue, avgValue and currentValue; each reads absent[i] for the indexes
\* of f64s it visits
highestCompute(target, f64s, absent) ==
    With(SelectSeq([i \in 1..Len(f64s) |-> i], LAMBDA i : ~absent[i]), LAMBDA p :
         IF target = Lit["highestMax"]
         THEN (IF p = <<>> THEN Inf(-1)
               ELSE f64s[CHOOSE i \in {p[k] : k \in 1..Len(p)} :
                            \A j \in {p[k] : k \in 1..Len(p)} : ~FLt(f64s[i], f64s[j]) /\
                                (f64s[j] = f64s[i] => i <= j)])
         ELSE IF target = Lit["highestAverage"]
         THEN FDiv(FSum([j \in 1..Len(p) |-> f64s[p[j]]]), FInt(Len(p)))
         ELSE IF p = <<>> THEN NaN ELSE f64s[p[Len(p)]])

\* metricHeap.Swap on Go indexes
heapSwap(mh, i, j) == [mh EXCEPT ![i + 1] = mh[j + 1], ![j + 1] = mh[i + 1]]

\* metricHeap.Less on Go indexes
heapLess(mh, i, j) == FLt(mh[i + 1].val, mh[j + 1].val)

\* up of container/heap
RECURSIVE heapUp(_, _)
heapUp(mh, j) ==
    IF j = 0 THEN mh
    ELSE With((j - 1) \div 2, LAMBDA i :
              IF ~heapLess(mh, j, i) THEN mh ELSE heapUp(heapSwap(mh, i, j), i))

\* down of container/heap over the first n elements
RECURSIVE heapDown(_, _, _)
heapDown(mh, i, n) ==
    IF 2 * i + 1 >= n THEN mh
    ELSE With(IF 2 * i + 2 < n /\ heapLess(mh, 2 * i + 2, 2 * i + 1) THEN 2 * i + 2
              ELSE 2 * i + 1, LAMBDA j :
              IF ~heapLess(mh, j, i) THEN mh ELSE heapDown(heapSwap(mh, i, j), j, n))

\* heap.Push
heapPush(mh, x) == heapUp(Append(mh, x), Len(mh))

\* the heap after heap.Pop, which returns its last element
heapPop(mh) == heapDown(heapSwap(mh, 0, Len(mh) - 1), 0, Len(mh) - 1)

\* the loop over arg: ms[i + 1] is compute of arg[i]; reading mh[0] of an
\* empty heap panics
RECURSIVE highestLoop(_, _, _, _)
highestLoop(ms, i, n, mh) ==
    IF i >= Len(ms) THEN [mh |-> mh, panic |-> FALSE]
    ELSE IF IsNaN(ms[i + 1]) THEN highestLoop(ms, i + 1, n, mh)
    ELSE IF Len(mh) < n
    THEN highestLoop(ms, i + 1, n, heapPush(mh, [idx |-> i, val |-> ms[i + 1]]))
    ELSE IF Len(mh) = 0 THEN [mh |-> mh, panic |-> TRUE]
    ELSE IF FLt(mh[1].val, ms[i + 1])
    THEN highestLoop(ms, i + 1, n,
                     heapDown([mh EXCEPT ![1] = [idx |-> i, val |-> ms[i + 1]]], 0, Len(mh)))
    ELSE highestLoop(ms, i + 1, n, mh)

\* the loop that empties the heap into results
RECURSIVE highestPop(_, _, _)
highestPop(mh, arg, results) ==
    IF Len(mh) = 0 THEN results
    ELSE With(heapPop(mh), LAMBDA popped :
              highestPop(Take(popped, Len(mh) - 1), arg,
                         [results EXCEPT ![Len(mh)] = arg[popped[Len(mh)].idx + 1]]))

\* a nil *metricData
NilSeries == MkSeries(<<>>, 0, 0, 0, 0)

\* highestAverage, highestCurrent and highestMax
evalHighest(ex, f, u, st) ==
    With(getSeriesArg(ex.args[1], f, u, st), LAMBDA g :
    With([ex EXCEPT !.args[1] = g.ex], LAMBDA ex1 :
         IF g.err THEN Ret(g.st, ex1, NilList)
         ELSE
    With(getIntArg(ex, 1), LAMBDA n :
         IF n.err # "nil" THEN Ret(g.st, ex1, NilList)
         ELSE
    With(Items(g.st, g.res), LAMBDA arg :
         IF Len(arg) < n.v THEN Ret(g.st, ex1, g.res)
         ELSE IF \E i \in 1..Len(arg) : Len(Absent(g.st, arg[i])) < Len(Vals(g.st, arg[i]))
         THEN RetPanic(g.st, ex1)
         ELSE
    With(highestLoop([i \in 1..Len(arg) |->
                         highestCompute(ex.target, Vals(g.st, arg[i]), Absent(g.st, arg[i]))],
                     0, n.v, <<>>), LAMBDA h :
         IF h.panic \/ n.v < 0 THEN RetPanic(g.st, ex1)
         ELSE Ret(g.st, ex1,
                  FreshList(highestPop(h.mh, arg, [i \in 1..n.v |-> NilSeries]))))))))

\* fmt's %.2f of a finite number: two decimals, rounded half to even
FormatF2(v) ==
    With((Abs(v.n) * 100) \div v.d, LAMBDA q :
    With(2 * ((Abs(v.n) * 100) % v.d), LAMBDA twice :
    With(IF twice > v.d \/ (twice = v.d /\ q % 2 = 1) THEN q + 1 ELSE q, LAMBDA c :
         (IF v.n < 0 /\ c > 0 THEN <<"-">> ELSE <<>>)
         \o NatStr(c \div 100) \o <<".">> \o NatStr((c % 100) \div 10) \o NatStr(c % 10))))

\* single_failures of checkVariance: 1 where a present sample is at least
\* acceptableStdevs standard deviations from the average
singleFailures(vals, abs, stdevs, averages, acceptableStdevs) ==
    [i \in 1..Len(vals) |->
        IF abs[i] THEN 0
        ELSE IF FLt(IF FGt(stdevs[i], FInt(0))
                    THEN FAbs(FDiv(FSub(vals[i], averages[i]), stdevs[i]))
                    ELSE FInt(0),
                    acceptableStdevs)
        THEN 0 ELSE 1]

\* left_failures at Go index i: the failures counted before sample i
RECURSIVE leftFailures(_, _)
leftFailures(single, i) ==
    IF i = 0 THEN 0
    ELSE IF single[i] = 1 THEN leftFailures(single, i - 1) + 1
    ELSE 0

\* right_failures at Go index i: the failures counted after sample i
RECURSIVE rightFailures(_, _)
rightFailures(single, i) ==
    IF i = Len(single) - 1 THEN 0
    ELSE IF single[i + 2] = 1 THEN rightFailures(single, i + 1) + 1
    ELSE 0

\* failures of the last loop of checkVariance at Go index i
countFailures(single, i) ==
    1 + (IF i - 1 >= 0 THEN leftFailures(single, i - 1) ELSE 0)
      + (IF i + 1 < Len(single) THEN rightFailures(single, i + 1) ELSE 0)

\* the callback of checkVariance
checkVarianceFunc(st, a, stdevs, averages, acceptableStdevs, windows) ==
    IF \/ Len(Absent(st, a)) < Len(Vals(st, a))
       \/ \E i \in 1..Len(Vals(st, a)) : ~Absent(st, a)[i] /\ i > Len(stdevs)
    THEN CbPanic(a)
    ELSE With(singleFailures(Vals(st, a), Absent(st, a), stdevs, averages, acceptableStdevs),
              LAMBDA single :
              CbRet(a,
                    [i \in 1..Len(single) |->
                        IF single[i] = 0 \/ countFailures(single, i - 1) < windows
                        THEN FInt(0) ELSE FInt(1)],
                    [i \in 1..Len(single) |-> FALSE]))

evalCheckVariance(ex, f, u, st) ==
    With(getSeriesArg(ex.args[1], f, u, st), LAMBDA g :
    With([ex EXCEPT !.args[1] = g.ex], LAMBDA ex1 :
         IF g.err THEN Ret(g.st, ex1, NilList)
         ELSE
    With(getFloatArg(ex, 1), LAMBDA acceptableStdevs :
    With(getIntArg(ex, 2), LAMBDA windows :
         IF acceptableStdevs.err # "nil" \/ windows.err # "nil" THEN Ret(g.st, ex1, NilList)
         ELSE
    With(aggregateSeries(ex1, Items(g.st, g.res), g.st, "avg"), LAMBDA averages :
         IF averages.st.panic THEN RetPanic(averages.st, ex1)
         ELSE
    With(aggregateSeries(ex1, Items(g.st, g.res), averages.st, "stdev"), LAMBDA stdevs :
    With(getSeriesArg(ex1.args[1], f, u, stdevs.st), LAMBDA g2 :
    With([ex1 EXCEPT !.args[1] = g2.ex], LAMBDA ex2 :
         IF g2.err THEN Ret(g2.st, ex2, NilList)
         ELSE
    With(Items(g2.st, g2.res), LAMBDA arg :
    With([i \in 1..Len(arg) |->
             checkVarianceFunc(g2.st, arg[i], Vals(stdevs.st, stdevs.res.items[1]),
                               Vals(averages.st, averages.res.items[1]),
                               acceptableStdevs.v, windows.v)], LAMBDA out :
    With(FirstPanic(out) - 1, LAMBDA m :
         IF m < Len(arg) THEN RetPanic(Alloc(g2.st, out, m), ex2)
         ELSE Ret(Alloc(g2.st, out, m), ex2,
                  FreshList([i \in 1..m |->
                      [arg[i] EXCEPT
                          !.name = Lit["stdev"] \o <<"(">> \o arg[i].name \o <<")", " ", "<", " ">>
                                   \o FormatF2(acceptableStdevs.v) \o <<" ", "(">>
                                   \o Itoa(windows.v) \o <<" ">> \o Lit["windows"] \o <<")">>,
                          !.drawAsInfinite = TRUE,
                          !.secondYAxis = TRUE,
                          !.buf = Len(g2.st.heap) + i]])))))))))))))

\* bucketSize of maxDataPoints; the quotient vals/points is taken on
\* integers, before math.Ceil.  points # 0; for step = 0 the product with
\* float64(step) is 0 whatever int() makes of the quotient
maxDataPointsBucket(start, stop, step, points) ==
    IF step = 0 THEN 0
    ELSE IDiv(CeilInt(FDiv(FInt(Sub32(stop, start)), FInt(step))), points) * step

\* one series of maxDataPoints, for bucketSize > step
maxDataPointsFunc(st, a, c) ==
    IF a.step = 0 \/ IDiv(c.bucketSize, a.step) < 0 THEN CbPanic(a)
    ELSE With(summarizeLoop([c EXCEPT !.vals = Vals(st, a), !.abs = Absent(st, a),
                                      !.step = a.step],
                            0, a.start, Add32(c.start, c.bucketSize), <<>>,
                            [vals |-> <<>>, abs |-> <<>>, ridx |-> 0, items |-> 0,
                             panic |-> FALSE]),
              LAMBDA w :
              IF w.panic THEN CbPanic(a)
              ELSE CbRet(MkSeries(a.name, c.start, c.stop, c.bucketSize, 0),
                         w.vals \o [j \in 1..(c.buckets - Len(w.vals)) |-> FInt(0)],
                         w.abs \o [j \in 1..(c.buckets - Len(w.abs)) |-> FALSE]))

evalMaxDataPoints(ex, f, u, st) ==
    With(getSeriesArg(ex.args[1], f, u, st), LAMBDA g :
    With([ex EXCEPT !.args[1] = g.ex], LAMBDA ex1 :
         IF g.err THEN Ret(g.st, ex1, NilList)
         ELSE
    With(getIntArg(ex, 1), LAMBDA points :
         IF points.err # "nil" THEN Ret(g.st, ex1, NilList)
         ELSE IF points.v = 0 THEN RetPanic(g.st, ex1)
         ELSE
    With(Items(g.st, g.res), LAMBDA args :
    With(maxDataPointsBucket(args[1].start, args[1].stop, args[1].step, points.v),
         LAMBDA bucketSize :
         IF bucketSize <= args[1].step THEN Ret(g.st, ex1, FreshList(args))
         ELSE
    With(alignToBucketSize(args[1].start, args[1].stop, bucketSize), LAMBDA al :
    With(getBuckets(al.start, al.stop, bucketSize), LAMBDA buckets :
         IF buckets < 0 THEN RetPanic(g.st, ex1)
         ELSE
    With([i \in 1..Len(args) |->
             maxDataPointsFunc(g.st, args[i],
                               [f |-> Lit["avg"], vals |-> <<>>, abs |-> <<>>,
                                step |-> 0, start |-> al.start, stop |-> al.stop,
                                bucketSize |-> bucketSize, buckets |-> buckets])],
         LAMBDA out :
    With(FirstPanic(out) - 1, LAMBDA m :
         IF m < Len(out) THEN RetPanic(Alloc(g.st, out, m), ex1)
         ELSE Ret(Alloc(g.st, out, m), ex1,
                  FreshList([i \in 1..m |->
                                [out[i].r EXCEPT !.buf = Len(g.st.heap) + i]])))))))))))

\* onlinestats.Pearson is not part of expr.go: the linear correlation
\* coefficient r of the pairs in which neither value is NaN, NaN when a
\* series has no variance over them.  The model holds sign(r) * r^2 in its
\* place, which is ordered as r is and needs no square root.
Pearson(a, b) ==
    With(SelectSeq([i \in 1..Len(a) |-> i], LAMBDA i : ~IsNaN(a[i]) /\ ~IsNaN(b[i])),
         LAMBDA p :
         IF p = <<>> THEN NaN
         ELSE
    With(FAvg([j \in 1..Len(p) |-> a[p[j]]]), LAMBDA abar :
    With(FAvg([j \in 1..Len(p) |-> b[p[j]]]), LAMBDA bbar :
    With(FSum([j \in 1..Len(p) |-> FMul(FSub(a[p[j]], abar), FSub(b[p[j]], bbar))]),
         LAMBDA numerator :
    With(FMul(FSum([j \in 1..Len(p) |-> FMul(FSub(a[p[j]], abar), FSub(a[p[j]], abar))]),
              FSum([j \in 1..Len(p) |-> FMul(FSub(b[p[j]], bbar), FSub(b[p[j]], bbar))])),
         LAMBDA squares :
         IF squares = FInt(0) THEN NaN
         ELSE FMul(FInt(Sign(numerator)), FDiv(FMul(numerator, numerator), squares)))))))

\* the loop that writes NaN over the absent samples of series a, in place;
\* it panics on a flag without a value
nanOutBad(st, a) ==
    \E i \in 1..Len(Absent(st, a)) : Absent(st, a)[i] /\ i > Len(Vals(st, a))

nanOut(st, a) ==
    [st EXCEPT !.heap[a.buf].vals =
        [i \in 1..Len(@) |-> IF i <= Len(Absent(st, a)) /\ Absent(st, a)[i] THEN NaN ELSE @[i]]]

\* the loop of pearsonClosest over compare from Go index on: [st, mh, panic]
RECURSIVE pearsonLoop(_, _, _, _, _, _)
pearsonLoop(st, ref, compare, index, direction, mh) ==
    IF index >= Len(compare) THEN [st |-> st, mh |-> mh, panic |-> FALSE]
    ELSE With(compare[index + 1], LAMBDA a :
         IF Len(Vals(st, ref)) # Len(Vals(st, a))
         THEN pearsonLoop(st, ref, compare, index + 1, direction, mh)
         ELSE IF nanOutBad(st, a) THEN [st |-> st, mh |-> mh, panic |-> TRUE]
         ELSE
    With(nanOut(st, a), LAMBDA st1 :
    With(Pearson(Vals(st1, ref), Vals(st1, a)), LAMBDA value :
         IF IsNaN(value) THEN pearsonLoop(st1, ref, compare, index + 1, direction, mh)
         ELSE IF direction = Lit["abs"]
         THEN pearsonLoop(st1, ref, compare, index + 1, direction,
                          heapPush(mh, [idx |-> index, val |-> FNeg(FAbs(value))]))
         ELSE IF direction = Lit["pos"] /\ FGe(value, FInt(0))
         THEN pearsonLoop(st1, ref, compare, index + 1, direction,
                          heapPush(mh, [idx |-> index, val |-> FNeg(value)]))
         ELSE IF direction = Lit["neg"] /\ FLe(value, FInt(0))
         THEN pearsonLoop(st1, ref, compare, index + 1, direction,
                          heapPush(mh, [idx |-> index, val |-> value]))
         ELSE pearsonLoop(st1, ref, compare, index + 1, direction, mh))))

\* the loop that empties the heap into results[len(results)-1]:
\* [results, panic]
RECURSIVE pearsonPop(_, _, _)
pearsonPop(mh, compare, results) ==
    IF Len(mh) = 0 THEN [results |-> results, panic |-> FALSE]
    ELSE IF Len(results) = 0 THEN [results |-> results, panic |-> TRUE]
    ELSE With(heapPop(mh), LAMBDA popped :
         With([results EXCEPT ![Len(results)] = compare[popped[Len(mh)].idx + 1]],
              LAMBDA results1 :
              IF Len(mh) - 1 = Len(results) THEN [results |-> results1, panic |-> FALSE]
              ELSE pearsonPop(Take(popped, Len(mh) - 1), compare, results1)))

evalPearsonClosest(ex, f, u, st) ==
    With(getSeriesArg(ex.args[1], f, u, st), LAMBDA ref :
    With([ex EXCEPT !.args[1] = ref.ex], LAMBDA ex1 :
         IF ref.err \/ ref.res.len # 1 THEN Ret(ref.st, ex1, NilList)
         ELSE
    With(getSeriesArg(ex1.args[2], f, u, ref.st), LAMBDA compare :
    With([ex1 EXCEPT !.args[2] = compare.ex], LAMBDA ex2 :
         IF compare.err THEN Ret(compare.st, ex2, NilList)
         ELSE
    With(getIntArg(ex, 2), LAMBDA n :
    With(getStringArgDefault(ex, 3, Lit["abs"]), LAMBDA direction :
         IF \/ n.err # "nil"
            \/ direction.err # "nil" /\ Len(ex.args) > 3
            \/ direction.v \notin {Lit["pos"], Lit["neg"], Lit["abs"]}
         THEN Ret(compare.st, ex2, NilList)
         ELSE
    With(Items(compare.st, ref.res)[1], LAMBDA ref0 :
         IF nanOutBad(compare.st, ref0) THEN RetPanic(compare.st, ex2)
         ELSE
    With(pearsonLoop(nanOut(compare.st, ref0), ref0, Items(compare.st, compare.res), 0,
                     direction.v, <<>>), LAMBDA h :
         IF h.panic \/ n.v < 0 THEN RetPanic(h.st, ex2)
         ELSE
    With(pearsonPop(h.mh, Items(compare.st, compare.res), [i \in 1..n.v |-> NilSeries]),
         LAMBDA popped :
         IF popped.panic THEN RetPanic(h.st, ex2)
         ELSE Ret(h.st, ex2, FreshList(popped.results)))))))))))

evalAsPercent(ex, f, u, st) ==
    With(getSeriesArg(ex.args[1], f, u, st), LAMBDA g :
    With([ex EXCEPT !.args[1] = g.ex], LAMBDA ex1 :
         IF g.err THEN Ret(g.st, ex1, NilList)
         ELSE IF Len(ex.args) = 1
         THEN With(Items(g.st, g.res), LAMBDA arg :
                   IF \E i \in 1..Len(Vals(g.st, arg[1])) : \E j \in 1..Len(arg) :
                         Len(Absent(g.st, arg[j])) < i \/ Len(Vals(g.st, arg[j])) < i
                   THEN RetPanic(g.st, ex1)
                   ELSE asPercentFill(ex1, g.st, arg,
                            [j \in 1..Len(arg) |-> Paren(Lit["asPercent"], arg[j].name)],
                            [i \in 1..Len(Vals(g.st, arg[1])) |->
                                asPercentSum(g.st, arg, i)]))
         ELSE IF Len(ex.args) = 2 /\ ex.args[2].etype = "etConst"
         THEN With(Items(g.st, g.res), LAMBDA arg :
                   asPercentFill(ex1, g.st, arg,
                       [j \in 1..Len(arg) |->
                           Lit["asPercent"] \o <<"(">> \o arg[j].name \o <<",">>
                           \o FormatG(ex.args[2].val) \o <<")">>],
                       [i \in 1..Len(Vals(g.st, arg[1])) |-> ex.args[2].val]))
         ELSE IF Len(ex.args) = 2 /\ ex.args[2].etype \in {"etName", "etFunc"}
         THEN asPercentSeries(ex1, f, u, g)
         ELSE Ret(g.st, ex1, NilList)))

(***************************************************************************)
(* evalExpr                                                                *)
(***************************************************************************)
\* values[metricRequest{e.target, from, until}]; a lookup in the caller's
\* ValuesMap is recorded in st.looked
evalName(ex, f, u, st) ==
    With(MkRequest(ex.target, f, u), LAMBDA key :
    With(IF st.nested THEN st ELSE [st EXCEPT !.looked = @ \cup {key}], LAMBDA st1 :
         IF key \in DOMAIN st.vm THEN Ret(st1, ex, HomedList(key, Len(st.vm[key])))
         ELSE Ret(st1, ex, NilList)))

evalConst(ex, st) ==
    Ret([st EXCEPT !.heap = Append(@, MkBuf(<<ex.val>>, <<>>))], ex,
        FreshList(<<MkSeries(ex.target, 0, 0, 0, Len(st.heap) + 1)>>))

evalExpr(ex, f, u, st) ==
    IF ex.etype = "etName" THEN evalName(ex, f, u, st)
    ELSE IF ex.etype = "etConst" THEN evalConst(ex, st)
    ELSE IF Len(ex.args) = 0 THEN Ret(st, ex, NilList)
    ELSE IF ex.target = Lit["absolute"] THEN evalAbsolute(ex, f, u, st)
    ELSE IF ex.target = Lit["alias"] THEN evalAlias(ex, f, u, st)
    ELSE IF ex.target = Lit["asPercent"] THEN evalAsPercent(ex, f, u, st)
    ELSE IF ex.target \in {Lit["avg"], Lit["averageSeries"]} THEN evalAvg(ex, f, u, st)
    ELSE IF ex.target = Lit["averageSeriesWithWildcards"]
         THEN evalAverageSeriesWithWildcards(ex, f, u, st)
    ELSE IF ex.target = Lit["constantLine"] THEN evalConstantLine(ex, f, u, st)
    ELSE IF ex.target = Lit["derivative"] THEN evalDerivative(ex, f, u, st)
    ELSE IF ex.target = Lit["diffSeries"] THEN evalDiffSeries(ex, f, u, st)
    ELSE IF ex.target = Lit["ensure"] THEN evalEnsure(ex, f, u, st)
    ELSE IF ex.target = Lit["multiplySeries"] THEN evalMultiplySeries(ex, f, u, st)
    ELSE IF ex.target = Lit["groupByNode"] THEN evalGroupByNode(ex, f, u, st)
    ELSE IF ex.target = Lit["integral"] THEN evalIntegral(ex, f, u, st)
    ELSE IF ex.target \in {Lit["isNonNull"], Lit["isNotNull"]} THEN evalIsNonNull(ex, f, u, st)
    ELSE IF ex.target = Lit["changed"] THEN evalChanged(ex, f, u, st)
    ELSE IF ex.target = Lit["movingAverage"] THEN evalMovingAverage(ex, f, u, st)
    ELSE IF ex.target = Lit["nPercentile"] THEN evalNPercentile(ex, f, u, st)
    ELSE IF ex.target = Lit["removeBelowValue"] THEN evalRemoveByValue(ex, f, u, st, "below")
    ELSE IF ex.target = Lit["removeAboveValue"] THEN evalRemoveByValue(ex, f, u, st, "above")
    ELSE IF ex.target \in {Lit["sortByMaxima"], Lit["sortByMinima"], Lit["sortByTotal"]}
         THEN evalSortByVals(ex, f, u, st)
    ELSE IF ex.target = Lit["sortByName"] THEN evalSortByName(ex, f, u, st)
    ELSE IF ex.target \in {Lit["sum"], Lit["sumSeries"]} THEN evalSum(ex, f, u, st)
    ELSE IF ex.target = Lit["sumSeriesWithWildcards"]
         THEN evalSumSeriesWithWildcards(ex, f, u, st)
    ELSE IF ex.target = Lit["summarize"] THEN evalSummarize(ex, f, u, st)
    ELSE IF ex.target = Lit["timeShift"] THEN evalTimeShift(ex, f, u, st)
    ELSE IF ex.target = Lit["pearsonClosest"] THEN evalPearsonClosest(ex, f, u, st)
    ELSE IF ex.target = Lit["maxDataPoints"] THEN evalMaxDataPoints(ex, f, u, st)
    ELSE IF ex.target = Lit["checkVariance"] THEN evalCheckVariance(ex, f, u, st)
    ELSE IF ex.target \in {Lit["highestAverage"], Lit["highestCurrent"], Lit["highestMax"]}
    THEN evalHighest(ex, f, u, st)
    ELSE IF ex.target \in {Lit["checkLess"], Lit["checkLessEqual"], Lit["checkGreater"],
                           Lit["checkGreaterEqual"], Lit["checkEqual"]}
    THEN evalCompare(ex, f, u, st)
    ELSE IF ex.target = Lit["holtWintersForecast"] THEN evalHoltWintersForecast(ex, f, u, st)
    ELSE Ret(st, ex, NilList)

(***************************************************************************)
(* The inputs: target texts, windows, and what the Fetcher's store holds.  *)
(***************************************************************************)
\* the largest magnitude, in seconds, of the intervals in the texts
MaxShift == 2

\* the largest node position and window size in the texts
MaxNode == 2

Call(f, args) == f \o <<"(">> \o Join(args, <<",">>) \o <<")">>

Quoted(s) == <<"'">> \o s \o <<"'">>

Num10(n) == IF n < 0 THEN <<"-">> \o NatStr(-n) ELSE NatStr(n)

Intervals ==
    {sign \o NatStr(n) \o Lit["s"] : sign \in {<<>>, <<"-">>, <<"+">>}, n \in 1..MaxShift}

SeriesNames == {Lit["c"], Lit["a.*"]}

UnaryFns ==
    {Lit["sum"], Lit["avg"], Lit["isNotNull"], Lit["derivative"], Lit["changed"],
     Lit["sortByName"], Lit["sortByTotal"], Lit["sortByMinima"], Lit["multiplySeries"],
     Lit["holtWintersForecast"], Lit["movingAverage"], Lit["max"]}

Callbacks == {Lit["sum"], Lit["sortByName"], <<>>}

BaseTexts == SeriesNames \cup {<<"1">>, Quoted(Lit["x"]), <<>>, Lit["c"] \o <<")">>,
                               Lit["sum"] \o <<"(">> \o Lit["c"]}

UnaryTexts == {Call(f, <<s>>) : f \in UnaryFns, s \in SeriesNames}

ManyTexts ==
    {Call(Lit["sum"], <<Lit["c"], Lit["a.*"]>>),
     Call(Lit["avg"], <<Lit["a.*"], Lit["c"]>>),
     Call(Lit["multiplySeries"], <<Lit["c"], Lit["c"]>>),
     Call(Lit["multiplySeries"], <<Lit["c"], Lit["a.*"]>>),
     Call(Lit["derivative"], <<Lit["c"], Lit["a.*"]>>),
     Call(Lit["holtWintersForecast"], <<Lit["c"], Lit["a.*"]>>)}

ShiftedInner ==
    SeriesNames \cup
    {Call(Lit["holtWintersForecast"], <<Lit["c"]>>),
     Call(Lit["sum"], <<Lit["c"], Lit["a.*"]>>),
     Call(Lit["timeShift"], <<Lit["c"], Quoted(<<"1">> \o Lit["s"])>>)}

ShiftedTexts ==
    {Call(Lit["timeShift"], <<s, Quoted(i)>>) : s \in ShiftedInner, i \in Intervals}
    \cup {Call(Lit["timeShift"], <<Lit["c"]>>),
          Call(Lit["timeShift"], <<Lit["c"], <<"1">>>>),
          Call(Lit["timeShift"], <<Lit["c"], Quoted(Lit["x"])>>),
          Call(Lit["timeShift"], <<Lit["a.*"], Quoted(<<"-", "1">> \o Lit["h"])>>),
          Call(Lit["timeShift"], <<Lit["c"], Quoted(<<"1">> \o Lit["h"]), Lit["a.*"]>>)}

NestedTexts ==
    {Call(Lit["holtWintersForecast"],
          <<Call(Lit["timeShift"], <<Lit["c"], Quoted(<<"1">> \o Lit["s"])>>)>>),
     Call(Lit["sum"],
          <<Call(Lit["timeShift"], <<Lit["c"], Quoted(<<"1">> \o Lit["s"])>>),
            Call(Lit["holtWintersForecast"], <<Lit["a.*"]>>)>>),
     Call(Lit["groupByNode"],
          <<Call(Lit["timeShift"], <<Lit["a.*"], Quoted(<<"1">> \o Lit["s"])>>),
            <<"0">>, Quoted(Lit["sum"])>>)}

GroupTexts ==
    {Call(Lit["groupByNode"], <<Lit["a.*"], Num10(n), Quoted(cb)>>) :
        n \in 0..MaxNode, cb \in Callbacks}
    \cup {Call(Lit["groupByNode"], <<Lit["n.*"], Num10(n), Quoted(Lit["sum"])>>) : n \in 0..1}
    \cup {Call(f, <<Lit["a.*"], Num10(n)>>) :
            f \in {Lit["sumSeriesWithWildcards"], Lit["averageSeriesWithWildcards"]},
            n \in 0..MaxNode}

WindowTexts ==
    {Call(Lit["movingAverage"], <<Lit["c"], Num10(n)>>) : n \in -1..(MaxNode + 1)}
    \cup {Call(Lit["movingAverage"], <<Lit["c"], Quoted(i)>>) : i \in Intervals}
    \cup {Call(Lit["summarize"], <<s, Quoted(i)>>) : s \in SeriesNames, i \in Intervals}
    \cup {Call(Lit["summarize"], <<Lit["c"], Quoted(<<"1">> \o Lit["s"]), Quoted(fn)>>) :
            fn \in {Lit["avg"], Lit["last"], Lit["median"], <<"p", "5", "0">>}}
    \cup {Call(Lit["summarize"],
               <<Lit["c"], Quoted(<<"2">> \o Lit["s"]), Quoted(Lit["sum"]), b>>) :
            b \in {Lit["true"], Lit["false"], Lit["c"]}}
    \cup {Call(Lit["summarize"], <<Lit["c"], Quoted(<<"0">> \o Lit["s"])>>)}

\* texts of the Parser: leading and inner spaces, a tail, text that ends inside
\* an argument list, a stray character, a bad number, an open quote, names
\* with braces, a lone space
ParserTexts ==
    {Lit["  sum(c, a.*)"], Lit[" c"], Lit["sum( c)"], Lit["sum(avg(c),a.*))"],
     Lit["sum(c a.*)"], Lit["sum(c;a.*)"], Lit["sum("], Lit["sum(c,"], Lit["sum(avg(c"],
     Lit["1ex"], Lit["'x"], Lit["a.{b,c}.d"], Lit["a.{b,c}.d,x"], Lit["a}b"],
     Lit["{a}}b"], <<" ">>}

\* functions that make a series of their own
MakerTexts ==
    {Call(Lit["constantLine"], <<n>>) : n \in {<<"1">>, <<"1", ".", "5">>, Quoted(Lit["x"])}}
    \cup {Call(Lit["ensure"], <<s>>) : s \in {Lit["c"], Lit["x"], <<"1">>}}

\* differences and running sums
DiffTexts ==
    {Call(Lit["diffSeries"], args) :
        args \in {<<Lit["c"], Lit["c"]>>, <<Lit["c"], Lit["a.*"]>>, <<Lit["a.*"], Lit["c"]>>,
                  <<Lit["a.*"], Lit["a.*"]>>, <<Lit["c"]>>, <<Lit["c"], <<"1">>>>}}
    \cup {Call(Lit["integral"], <<s>>) : s \in SeriesNames}
    \cup {Call(Lit["derivative"], <<Call(Lit["integral"], <<s>>)>>) : s \in SeriesNames}

\* functions applied to their own result
TwiceTexts ==
    {Call(fn, <<Call(fn, <<s>>)>>) :
        fn \in {Lit["absolute"], Lit["isNonNull"]},
        s \in SeriesNames \cup {Call(Lit["diffSeries"], <<Lit["c"], Lit["a.*"]>>)}}
    \cup {Call(Lit["alias"], <<Call(Lit["alias"], <<s, Quoted(Lit["a"])>>), Quoted(Lit["a"])>>) :
            s \in SeriesNames}
    \cup {Call(Lit["alias"], <<Lit["a.*"], Quoted(Lit["a"])>>),
          Call(Lit["alias"], <<Lit["c"]>>),
          Call(Lit["absolute"], <<Call(Lit["diffSeries"], <<Lit["c"], Lit["a.*"]>>)>>)}

\* a.x alone: the first series of a.* sorted by name
FirstByName == Call(Lit["alias"], <<Call(Lit["sortByName"], <<Lit["a.*"]>>), Quoted(Lit["a"])>>)

PercentTexts ==
    {Call(Lit["asPercent"], <<s, t>>) :
        s \in SeriesNames,
        t \in {Lit["c"], Lit["a.*"], FirstByName, Call(Lit["isNonNull"], <<Lit["c"]>>),
               Call(Lit["alias"], <<Lit["a.*"], Quoted(Lit["a"])>>),
               <<"2">>, <<"0">>, Quoted(Lit["x"])}}
    \cup {Call(Lit["asPercent"], <<s>>) : s \in SeriesNames}

\* functions that take a series list and a number
CompareTexts ==
    {Call(fn, <<s, Call(Lit["constantLine"], <<v>>)>>) :
        fn \in {Lit["checkLess"], Lit["checkLessEqual"], Lit["checkGreater"],
                Lit["checkGreaterEqual"], Lit["checkEqual"]},
        s \in SeriesNames, v \in {<<"2">>}}
    \cup {Call(fn, <<s, t>>) :
            fn \in {Lit["checkLess"], Lit["checkEqual"]}, s \in SeriesNames,
            t \in {Call(Lit["constantLine"], <<<<"-", "1">>>>), Lit["c"], Lit["a.*"]}}
    \cup {Call(Lit["checkLess"], <<Lit["c"]>>)}

HighestTexts ==
    {Call(fn, <<s, Num10(n)>>) :
        fn \in {Lit["highestAverage"], Lit["highestCurrent"], Lit["highestMax"]},
        s \in SeriesNames, n \in 0..MaxNode}
    \cup {Call(Lit["highestMax"], <<Lit["a.*"], <<"-", "1">>>>),
          Call(Lit["highestMax"], <<Lit["a.*"]>>)}

VarianceTexts ==
    {Call(Lit["checkVariance"], <<s, acc, Num10(w)>>) :
        s \in SeriesNames, acc \in {<<"0">>, <<"1">>, <<"2">>}, w \in 1..MaxNode}
    \cup {Call(Lit["checkVariance"], <<Lit["c"], <<"0">>>>)}

PointsTexts ==
    {Call(Lit["maxDataPoints"], <<s, Num10(n)>>) : s \in SeriesNames, n \in 0..(MaxNode + 1)}
    \cup {Call(Lit["maxDataPoints"], <<Lit["c"]>>)}

PearsonTexts ==
    {Call(Lit["pearsonClosest"], <<Lit["c"], s, Num10(n)>>) :
        s \in SeriesNames, n \in 0..MaxNode}
    \cup {Call(Lit["pearsonClosest"], <<Lit["c"], Lit["a.*"], <<"1">>, Quoted(d)>>) :
            d \in {Lit["pos"], Lit["neg"], Lit["x"]}}
    \cup {Call(Lit["pearsonClosest"], <<Lit["a.*"], Lit["c"], <<"1">>>>),
          Call(Lit["pearsonClosest"], <<Lit["c"], Lit["a.*"]>>)}

NumberTexts ==
    {Call(fn, <<Lit["c"], n>>) :
        fn \in {Lit["removeBelowValue"], Lit["removeAboveValue"], Lit["nPercentile"]},
        n \in {<<"2">>, <<"5", "0">>}}
    \cup {Call(fn, <<Lit["c"]>>) :
            fn \in {Lit["removeBelowValue"], Lit["removeAboveValue"], Lit["nPercentile"]}}
    \cup {Call(Lit["nPercentile"], <<Lit["c"], <<"1", "0", "1">>>>)}

Texts ==
    BaseTexts \cup UnaryTexts \cup ManyTexts \cup ShiftedTexts \cup NestedTexts
    \cup GroupTexts \cup WindowTexts \cup ParserTexts \cup MakerTexts \cup NumberTexts
    \cup DiffTexts \cup TwiceTexts \cup PercentTexts \cup CompareTexts \cup HighestTexts
    \cup VarianceTexts \cup PointsTexts \cup PearsonTexts

\* (from, until): an ordinary window, and one at the lower end of int32
Windows == {<<10, 13>>, <<0, 120>>, <<Min32 + 1, Min32 + 4>>}

\* the samples of one stored series
Row(vals, abs) == [vals |-> [i \in 1..Len(vals) |-> FInt(vals[i])], abs |-> abs]

\* what the store may hold: r1 and r2 are the series b.x and a.x that a.*
\* resolves to (in this order) and the series 1.x and n.x that n.* resolves
\* to, r3 is the series c
Scenarios ==
    {[r1 |-> Row(<<5, 1, 2>>, <<TRUE, FALSE, FALSE>>), r2 |-> x, r3 |-> y] :
        x \in {Row(<<1, 2, 3>>, <<FALSE, FALSE, FALSE>>), Row(<<4, 4>>, <<FALSE, TRUE>>)},
        y \in {Row(<<1, 2, 3>>, <<FALSE, FALSE, FALSE>>),
               Row(<<2, 0, 2>>, <<FALSE, TRUE, FALSE>>),
               Row(<<1, 2, 3, 4, 5>>, <<FALSE, FALSE, FALSE, FALSE, FALSE>>),
               Row(<<>>, <<>>)}}

storedSeries(sc, metric) ==
    IF metric = Lit["a.*"]
    THEN <<[name |-> Lit["b.x"], row |-> sc.r1], [name |-> Lit["a.x"], row |-> sc.r2]>>
    ELSE IF metric = Lit["c"] THEN <<[name |-> Lit["c"], row |-> sc.r3]>>
    ELSE IF metric = Lit["n.*"]
    THEN <<[name |-> Lit["1.x"], row |-> sc.r1], [name |-> Lit["n.x"], row |-> sc.r2]>>
    ELSE <<>>

\* map iteration orders: a map of the evaluation has at most as many keys as
\* a stored list has series
Orders == {<<1, 2>>, <<2, 1>>}

(***************************************************************************)
(* The pipeline: text -> Parser -> Planner -> Fetcher -> Evaluator         *)
(***************************************************************************)
\* the ValuesMap key of a request under the top-level window
RequestKey(r, f, u) == MkRequest(r.metric, Add32(f, r.from), Add32(u, r.until))

\* the list the store answers a key with, its buffers allocated from base on
fetchOne(sc, k, base) ==
    With(storedSeries(sc, k.metric), LAMBDA ss :
         [items |-> [i \in 1..Len(ss) |-> MkSeries(ss[i].name, k.from, k.until, 1, base + i)],
          bufs |-> [i \in 1..Len(ss) |-> MkBuf(ss[i].row.vals, ss[i].row.abs)]])

\* the Fetcher: one list per distinct key, each series with fresh buffers
RECURSIVE fetchLoop(_, _, _, _)
fetchLoop(keys, sc, vm, h) ==
    IF keys = <<>> THEN [values |-> vm, heap |-> h]
    ELSE IF keys[1] \in DOMAIN vm THEN fetchLoop(Tail(keys), sc, vm, h)
    ELSE With(fetchOne(sc, keys[1], Len(h)), LAMBDA got :
              fetchLoop(Tail(keys), sc, (keys[1] :> got.items) @@ vm, h \o got.bufs))

\* a series, and a list, with the samples in place of the buffer index (a
\* nil series has none)
Resolved(h, s) == [s EXCEPT !.buf = IF s.buf = 0 THEN MkBuf(<<>>, <<>>) ELSE h[s.buf]]

ResolvedList(h, items) == [i \in 1..Len(items) |-> Resolved(h, items[i])]

ResolvedMap(h, vm) == [k \in DOMAIN vm |-> ResolvedList(h, vm[k])]

NoValues == [k \in {} |-> <<>>]

Init ==
    /\ text \in Texts
    /\ \E w \in Windows : from = w[1] /\ until = w[2]
    /\ e = NilExpr /\ perr = "nil" /\ tail = <<>>
    /\ requests = <<>>
    /\ values = NoValues /\ heap = <<>> /\ fetched = NoValues
    /\ result = <<>> /\ looked = {} /\ panicked = FALSE
    /\ pc = "parse"

\* parseExpr(text); the caller goes on when there is no error and no tail
Parse ==
    /\ pc = "parse"
    /\ With(parseExpr(text), LAMBDA p :
            /\ perr' = p.err
            /\ tail' = p.rest
            /\ e' = IF p.err = "nil" THEN p.ex ELSE NilExpr
            /\ pc' = IF p.err = "nil" /\ p.rest = <<>> THEN "plan" ELSE "done")
    /\ UNCHANGED <<text, from, until, requests, values, heap, fetched, result, looked,
                   panicked>>

\* e.metrics()
Plan ==
    /\ pc = "plan"
    /\ requests' = metrics(e)
    /\ pc' = "fetch"
    /\ UNCHANGED <<text, e, perr, tail, from, until, values, heap, fetched, result, looked,
                   panicked>>

\* the Fetcher populates the ValuesMap under the keys of the requests
Fetch ==
    /\ pc = "fetch"
    /\ \E sc \in Scenarios :
          With(fetchLoop([i \in 1..Len(requests) |-> RequestKey(requests[i], from, until)],
                         sc, NoValues, <<>>),
               LAMBDA got :
               /\ values' = got.values
               /\ heap' = got.heap
               /\ fetched' = ResolvedMap(got.heap, got.values))
    /\ pc' = "eval"
    /\ UNCHANGED <<text, e, perr, tail, from, until, requests, result, looked, panicked>>

\* evalExpr(e, from, until, values)
Eval ==
    /\ pc = "eval"
    /\ \E order \in Orders, forecastOk \in BOOLEAN :
          With(evalExpr(e, from, until, MkState(heap, values, order, forecastOk)), LAMBDA r :
               /\ e' = r.ex
               /\ values' = r.st.vm
               /\ heap' = r.st.heap
               /\ looked' = r.st.looked
               /\ panicked' = r.st.panic
               /\ result' = IF r.st.panic THEN <<>>
                            ELSE ResolvedList(r.st.heap, Items(r.st, r.res)))
    /\ pc' = "done"
    /\ UNCHANGED <<text, perr, tail, from, until, requests, fetched>>

Next == Parse \/ Plan \/ Fetch \/ Eval

Spec == Init /\ [][Next]_vars

(***************************************************************************)
(* The properties                                                          *)
(***************************************************************************)
\* the nodes of an expression tree
RECURSIVE SubExprs(_)
SubExprs(ex) == {ex} \cup UNION {SubExprs(ex.args[i]) : i \in 1..Len(ex.args)}

RECURSIVE Flatten(_)
Flatten(ss) == IF ss = <<>> THEN <<>> ELSE ss[1] \o Flatten(Tail(ss))

\* the requests of the arguments of node n, in argument order
ArgRequests(n) == Flatten([i \in 1..Len(n.args) |-> metrics(n.args[i])])

\* the text was parsed into e
Parsed == pc # "parse" /\ perr = "nil" /\ tail = <<>>

\* the keys of the requests under the top-level window
RequestKeys == {RequestKey(requests[i], from, until) : i \in 1..Len(requests)}

\* C1: every ValuesMap key the evaluation of e over (from, until) has looked
\* up for a Name node is {r.metric, from + r.from, until + r.until} for a
\* request r of e.metrics(), also under nested timeShift and
\* holtWintersForecast calls.
KeyAgreement == pc = "done" => looked \subseteq RequestKeys

\* holtWintersForecast(timeShift(...)) was evaluated at the lower end of
\* int32, and looked a key up
KeyAgreementWitness ==
    /\ pc = "done" /\ Parsed /\ from < 0
    /\ e.target = Lit["holtWintersForecast"] /\ Len(e.args) = 1
    /\ e.args[1].etype = "etFunc" /\ e.args[1].target = Lit["timeShift"]
    /\ looked # {}

\* C2: an evaluation returns a series list and never ends in a runtime
\* panic (an index out of range, a negative length, a division by zero).
NeverPanics == ~panicked

\* C3: after evalExpr has returned, every series of the ValuesMap has the
\* values, the isAbsent flags and the position in its list that it had
\* before the call.
ValuesMapReadOnly == pc = "done" /\ Parsed => ResolvedMap(heap, values) = fetched

\* C4: neither metrics() nor evalExpr changes the target, type, value, args
\* or argString of a node of the expression: the tree stays as parsed.
ExprImmutable == Parsed => e = parseExpr(text).ex

\* a buffer with the values at its absent positions blanked
MaskBuf(b) ==
    [b EXCEPT !.vals = [j \in 1..Len(b.vals) |->
                           IF j <= Len(b.abs) /\ b.abs[j] THEN FInt(0) ELSE b.vals[j]]]

\* what an evaluation of e over the buffers h returns: the list of series
\* with their samples, or that it panicked
Returned(h, order, forecastOk) ==
    With(evalExpr(e, from, until, MkState(h, values, order, forecastOk)), LAMBDA r :
         IF r.st.panic THEN [panic |-> TRUE, list |-> <<>>]
         ELSE [panic |-> FALSE, list |-> ResolvedList(r.st.heap, Items(r.st, r.res))])

\* Returned, compared at the non-absent positions only
Observed(h, order, forecastOk) ==
    With(Returned(h, order, forecastOk), LAMBDA r :
         [r EXCEPT !.list = [i \in 1..Len(r.list) |->
                                [r.list[i] EXCEPT !.buf = MaskBuf(r.list[i].buf)]]])

\* C5: two ValuesMaps that differ only in the values at absent positions
\* give the same output: the same series in the same order, the same
\* isAbsent flags, the same values at every non-absent position.
AbsentSamplesIgnored ==
    pc = "eval" =>
        \A order \in Orders, forecastOk \in BOOLEAN :
            Observed(heap, order, forecastOk)
                = Observed([i \in 1..Len(heap) |-> MaskBuf(heap[i])], order, forecastOk)

\* C6: two evaluations of the same expression over the same window and the
\* same ValuesMap return the same list of series in the same order, whatever
\* order the maps of the evaluation are ranged over.
EvaluationDeterministic ==
    pc = "eval" =>
        \A forecastOk \in BOOLEAN : \A o1, o2 \in Orders :
            Returned(heap, o1, forecastOk) = Returned(heap, o2, forecastOk)

\* C7, for a call of summarize that returns series: every request of
\* e.metrics() is for a Name that the evaluation of e looks up as a series;
\* the Name that is its boolean argument contributes none.
PlannerMinimal ==
    pc = "done" /\ Parsed /\ ~panicked /\ result # <<>> /\ e.target = Lit["summarize"] =>
        RequestKeys \subseteq looked

\* C8: metrics() of a Const or String is empty, of a Name the single request
\* {target, 0, 0}, and of a function other than timeShift and
\* holtWintersForecast the concatenation, in argument order, of the requests
\* of its arguments, unchanged.
PlannerBaseCases ==
    Parsed =>
        \A n \in SubExprs(e) :
            /\ n.etype \in {"etConst", "etString"} => metrics(n) = <<>>
            /\ n.etype = "etName" =>
                  metrics(n) = <<[metric |-> n.target, from |-> 0, until |-> 0]>>
            /\ n.etype = "etFunc"
                  /\ n.target \notin {Lit["timeShift"], Lit["holtWintersForecast"]} =>
                  metrics(n) = ArgRequests(n)

\* the plan of sum(c,a.*) holds the request of c, then that of a.*
PlannerBaseCasesWitness ==
    /\ pc = "fetch" /\ e.etype = "etFunc" /\ e.target = Lit["sum"] /\ Len(e.args) = 2
    /\ requests = <<[metric |-> Lit["c"], from |-> 0, until |-> 0],
                    [metric |-> Lit["a.*"], from |-> 0, until |-> 0]>>

\* the interval of a timeShift node, an unsigned one being negative
ShiftOf(n) ==
    IF Len(n.args) >= 2 /\ n.args[2].etype = "etString"
    THEN intervalString(n.args[2].valStr, -1)
    ELSE [v |-> 0, err |-> "ErrMissingArgument"]

IsShift(n) == n.etype = "etFunc" /\ n.target = Lit["timeShift"] /\ ShiftOf(n).err = "nil"

\* the requests r with offs added to from and until
Shifted(r, offs) ==
    [i \in 1..Len(r) |->
        [metric |-> r[i].metric, from |-> Add32(r[i].from, offs),
         until |-> Add32(r[i].until, offs)]]

\* C9: metrics() of timeShift(series, interval), the interval parsing to offs
\* seconds (unsigned: negative), is every request of its arguments, in
\* order, with offs added to from and until; nested timeShift calls add
\* their offsets up.
TimeShiftRewrite ==
    Parsed =>
        \A n \in SubExprs(e) :
            IsShift(n) =>
                /\ metrics(n) = Shifted(ArgRequests(n), ShiftOf(n).v)
                /\ Len(n.args) = 2 /\ IsShift(n.args[1]) =>
                      metrics(n) = Shifted(ArgRequests(n.args[1]),
                                           Add32(ShiftOf(n).v, ShiftOf(n.args[1]).v))

\* the plan of timeShift(timeShift(c,'1s'),'2s') is c, three seconds back
TimeShiftRewriteWitness ==
    /\ pc = "fetch" /\ IsShift(e) /\ Len(e.args) = 2 /\ IsShift(e.args[1])
    /\ e.args[2].valStr = <<"2", "s">>
    /\ requests = <<[metric |-> Lit["c"], from |-> -3, until |-> -3]>>

\* C10: metrics() of a holtWintersForecast call is the requests of its
\* arguments with 7*86400 seconds taken from every from and every until
\* unchanged; the evaluator looks its arguments up over
\* (from - 7*86400, until).
HoltWintersRewrite ==
    Parsed =>
        /\ \A n \in SubExprs(e) :
              n.etype = "etFunc" /\ n.target = Lit["holtWintersForecast"] =>
                  metrics(n) = [i \in 1..Len(ArgRequests(n)) |->
                                   [metric |-> ArgRequests(n)[i].metric,
                                    from |-> Sub32(ArgRequests(n)[i].from, 7 * 86400),
                                    until |-> ArgRequests(n)[i].until]]
        /\ pc = "done" /\ e.target = Lit["holtWintersForecast"]
              /\ (\A i \in 1..Len(e.args) : e.args[i].etype = "etName") =>
              /\ looked # {}
              /\ \A k \in looked :
                    /\ k.from = Sub32(from, 7 * 86400) /\ k.until = until
                    /\ \E i \in 1..Len(e.args) : k.metric = e.args[i].target

\* holtWintersForecast(c,a.*) was evaluated and looked both arguments up
HoltWintersRewriteWitness ==
    /\ pc = "done" /\ Parsed /\ e.target = Lit["holtWintersForecast"]
    /\ Len(e.args) = 2 /\ Len(requests) = 2 /\ Cardinality(looked) = 2

\* the text without its leading spaces
RECURSIVE TrimLeft(_)
TrimLeft(s) == IF s # <<>> /\ s[1] = " " THEN TrimLeft(Tail(s)) ELSE s

\* the suffixes of the text: the inputs of the parser's recursive calls are
\* among them
Suffixes(s) == {Drop(s, k) : k \in 0..Len(s)}

\* Parse has acted and nothing has acted on e since
AfterParse == pc \in {"plan", "fetch", "eval"} \/ (pc = "done" /\ ~Parsed)

\* the text that an accepted call or name and its remainder stand for
Unparse(ex, rest) ==
    IF ex.etype = "etFunc"
    THEN ex.target \o <<"(">> \o ex.argString \o <<")">> \o rest
    ELSE ex.target \o rest

RoundTripAt(s) ==
    With(parseExpr(s), LAMBDA p :
         p.err = "nil" /\ p.ex.etype \in {"etFunc", "etName"}
            => Unparse(p.ex, p.rest) = TrimLeft(s))

\* C11: for every text parseExpr accepts as a function call, target, "(",
\* argString, ")" and the remainder make up the text without its leading
\* spaces; for a name, target and the remainder do.  It holds for the parsed
\* text and for the inner calls, whose inputs are suffixes of the text.
ParserRoundTrip ==
    AfterParse =>
        /\ perr = "nil" /\ e.etype \in {"etFunc", "etName"}
              => Unparse(e, tail) = TrimLeft(text)
        /\ \A s \in Suffixes(text) : RoundTripAt(s)

\* a call with leading spaces, a space inside argString and a nested call
\* with a remainder have been parsed
ParserRoundTripWitness ==
    /\ AfterParse /\ perr = "nil" /\ e.etype = "etFunc"
    /\ \/ text[1] = " " /\ " " \in {e.argString[i] : i \in 1..Len(e.argString)}
       \/ tail # <<>> /\ \E i \in 1..Len(e.args) : e.args[i].etype = "etFunc"

\* the number of bytes c in s
RECURSIVE Count(_, _)
Count(c, s) == IF s = <<>> THEN 0 ELSE (IF s[1] = c THEN 1 ELSE 0) + Count(c, Tail(s))

\* C12: whenever parseExpr returns an error, the returned remainder is the
\* suffix of the input that starts at the byte at which parsing failed: a
\* suffix of the text; for a stray character, the suffix that starts with it;
\* for a malformed number, a suffix that still holds bytes of the number; for
\* input that ended too early, the empty suffix.
RemainderAtFailure ==
    AfterParse /\ perr # "nil" =>
        /\ tail \in Suffixes(text)
        /\ perr = "ErrUnexpectedCharacter" => tail # <<>> /\ tail[1] \notin {",", " ", ")"}
        /\ perr \in {"ErrSyntax", "ErrRange"} => tail # <<>>
        /\ perr \in {"ErrMissingExpr", "ErrMissingComma", "ErrMissingQuote"} => tail = <<>>

\* the text is a call whose argument list the input ends in: more opening
\* than closing parentheses, and no quote that could hide one
EndsInsideArgList(s) ==
    With(parseName(TrimLeft(s)), LAMBDA n :
         /\ n.name # <<>> /\ n.rest # <<>> /\ n.rest[1] = "("
         /\ Count("(", s) > Count(")", s)
         /\ Count("'", s) + Count("\"", s) = 0)

\* the text is a call whose first argument is followed by a byte that is
\* neither "," nor " " nor ")"
StrayAfterArgument(s) ==
    With(parseName(TrimLeft(s)), LAMBDA n :
         /\ n.name # <<>> /\ n.rest # <<>> /\ n.rest[1] = "("
         /\ With(parseExpr(Tail(n.rest)), LAMBDA a :
                 a.err = "nil" /\ a.rest # <<>> /\ a.rest[1] \notin {",", " ", ")"}))

\* C13: parsing a call whose opening parenthesis is never matched, or whose
\* argument is followed by a byte that is neither "," nor " " nor ")", fails
\* with UnexpectedCharacter.
UnmatchedIsUnexpected ==
    AfterParse /\ (EndsInsideArgList(text) \/ StrayAfterArgument(text))
        => perr = "ErrUnexpectedCharacter"

\* the second half of C13 alone
StrayIsUnexpected ==
    AfterParse /\ StrayAfterArgument(text) => perr = "ErrUnexpectedCharacter"

\* opening minus closing braces of s: parseName's counter after it has taken s
BraceDepth(s) == Count("{", s) - Count("}", s)

NameScanned(s) ==
    With(parseName(s), LAMBDA n :
         /\ n.name \o n.rest = s
         /\ \A k \in 1..Len(n.name) :
               /\ BraceDepth(Take(n.name, k)) >= 0
               /\ n.name[k] \in {",", "}"} => BraceDepth(Take(n.name, k - 1)) > 0
         /\ n.rest # <<>> =>
               /\ ~isNameChar(n.rest[1]) /\ n.rest[1] # "{"
               /\ n.rest[1] \in {",", "}"} => BraceDepth(n.name) = 0)

\* C14: parseName ends a name at a comma or closing brace met at brace depth
\* 0 and keeps the commas and closing braces met at depth > 0 inside the
\* name; the depth counter is never negative; the name followed by the
\* remainder is the input.  It holds for the name of the parsed text and for
\* parseName on every suffix of it.
NameBraces ==
    AfterParse =>
        /\ perr = "nil" /\ e.etype = "etName"
              => e.target = parseName(TrimLeft(text)).name /\ e.target \o tail = TrimLeft(text)
        /\ \A s \in Suffixes(text) : NameScanned(s)

\* a name that keeps a comma inside braces and ends at a comma outside them
NameBracesWitness ==
    /\ AfterParse /\ perr = "nil" /\ e.etype = "etName"
    /\ \E k \in 1..Len(e.target) : e.target[k] = "," /\ BraceDepth(Take(e.target, k)) = 1
    /\ tail # <<>> /\ tail[1] = ","

\* C15: every series returned by evalExpr, the results of a Name excepted,
\* has values and isAbsent vectors of the same length (the fetched series of
\* the model all have).
VectorsAligned ==
    pc = "done" /\ Parsed /\ ~panicked /\ e.etype # "etName" =>
        \A i \in 1..Len(result) : Len(result[i].buf.vals) = Len(result[i].buf.abs)

\* the same for the results of function calls alone
CallVectorsAligned ==
    pc = "done" /\ Parsed /\ ~panicked /\ e.etype = "etFunc" =>
        \A i \in 1..Len(result) : Len(result[i].buf.vals) = Len(result[i].buf.abs)

\* ceil(a / b) for b > 0
CeilDiv(a, b) == -((-a) \div b)

\* the series has ceil((stopTime - startTime) / stepTime) samples
Sized(s) ==
    /\ s.step > 0
    /\ Len(s.buf.vals) = CeilDiv(Sub32(s.stop, s.start), s.step)

InputsSized == \A k \in DOMAIN fetched : \A i \in 1..Len(fetched[k]) : Sized(fetched[k][i])

\* C16: every series that constantLine, ensure and summarize return has
\* N = ceil((stopTime - startTime) / stepTime) samples, whenever the fetched
\* series have.
SamplesFillWindow ==
    /\ pc = "done" /\ Parsed /\ ~panicked /\ InputsSized
    /\ e.target \in {Lit["constantLine"], Lit["ensure"], Lit["summarize"]}
    => \A i \in 1..Len(result) : Sized(result[i])

SummarizeFillsWindow ==
    pc = "done" /\ Parsed /\ ~panicked /\ InputsSized /\ e.target = Lit["summarize"]
        => \A i \in 1..Len(result) : Sized(result[i])

EnsureFillsWindow ==
    pc = "done" /\ Parsed /\ ~panicked /\ InputsSized /\ e.target = Lit["ensure"]
        => \A i \in 1..Len(result) : Sized(result[i])

\* a float64 that is NaN or an infinity
NotFinite(v) == IsNaN(v) \/ IsInf(v)

\* C17: no NaN or infinity leaves the evaluator: in every series a function
\* call returns, a sample whose value would be NaN or infinite is absent with
\* the value 0, so every stored value is finite (the fetched values are).
NoNaNLeaves ==
    pc = "done" /\ Parsed /\ ~panicked /\ e.etype = "etFunc" =>
        \A i \in 1..Len(result) : \A j \in 1..Len(result[i].buf.vals) :
            ~NotFinite(result[i].buf.vals[j])

\* the weaker half: every sample that is not absent is finite
PresentSamplesFinite ==
    pc = "done" /\ Parsed /\ ~panicked /\ e.etype = "etFunc" =>
        \A i \in 1..Len(result) : \A j \in 1..Len(result[i].buf.vals) :
            ~result[i].buf.abs[j] => ~NotFinite(result[i].buf.vals[j])

Reverse(s) == [i \in 1..Len(s) |-> s[Len(s) + 1 - i]]

\* what evalExpr returns for ex over the fetched ValuesMap
OutOf(ex, order, forecastOk) ==
    With(evalExpr(ex, from, until, MkState(heap, values, order, forecastOk)), LAMBDA r :
         IF r.st.panic THEN [panic |-> TRUE, list |-> <<>>]
         ELSE [panic |-> FALSE, list |-> ResolvedList(r.st.heap, Items(r.st, r.res))])

\* as many samples, the same isAbsent flags, the same values where present
SameSamples(s, t) ==
    /\ Len(s.buf.vals) = Len(t.buf.vals)
    /\ s.buf.abs = t.buf.abs
    /\ \A j \in 1..Len(s.buf.vals) :
          j <= Len(s.buf.abs) /\ ~s.buf.abs[j] => s.buf.vals[j] = t.buf.vals[j]

SameOutput(a, b) ==
    /\ a.panic = b.panic
    /\ Len(a.list) = Len(b.list)
    /\ \A i \in 1..Len(a.list) : SameSamples(a.list[i], b.list[i])

SumCall == e.etype = "etFunc" /\ e.target \in {Lit["sum"], Lit["sumSeries"]}

\* C18: sumSeries does not depend on the order of its arguments: over the
\* fetched ValuesMap, the call and the call with its arguments reversed return
\* series with as many samples, the same isAbsent flags and the same values.
SumOrderIndependent ==
    pc = "eval" /\ SumCall =>
        \A order \in Orders, forecastOk \in BOOLEAN :
            SameOutput(OutOf(e, order, forecastOk),
                       OutOf([e EXCEPT !.args = Reverse(@)], order, forecastOk))

\* every fetched series has as many samples as the window has seconds
InputsAligned ==
    \A k \in DOMAIN fetched : \A i \in 1..Len(fetched[k]) :
        /\ Len(fetched[k][i].buf.vals) = Sub32(until, from)
        /\ Len(fetched[k][i].buf.abs) = Sub32(until, from)

\* the same when the inputs have the same number of samples
AlignedSumOrderIndependent ==
    pc = "eval" /\ SumCall /\ InputsAligned =>
        \A order \in Orders, forecastOk \in BOOLEAN :
            SameOutput(OutOf(e, order, forecastOk),
                       OutOf([e EXCEPT !.args = Reverse(@)], order, forecastOk))

\* the fetched list of the Name node x
FetchedFor(x) == fetched[MkRequest(x.target, from, until)]

\* the sum at index j of the series of ss, an absent sample counting as 0
RECURSIVE SubtrahendsAt(_, _)
SubtrahendsAt(ss, j) ==
    IF ss = <<>> THEN FInt(0)
    ELSE FAdd(SubtrahendsAt(Take(ss, Len(ss) - 1), j),
              IF ss[Len(ss)].buf.abs[j] THEN FInt(0) ELSE ss[Len(ss)].buf.vals[j])

\* diffSeries of two names has returned
DiffDone ==
    /\ pc = "done" /\ Parsed /\ ~panicked
    /\ e.etype = "etFunc" /\ e.target = Lit["diffSeries"] /\ Len(e.args) = 2
    /\ \A i \in 1..2 : e.args[i].etype = "etName"

\* C19: for a series x, diffSeries(x, x) is absent where x is absent and 0 at
\* every other index; in general an absent sample of the minuend makes the
\* result absent, and an absent sample of a subtrahend counts as 0.
DiffSeriesLaw ==
    DiffDone =>
        /\ Len(result) = 1
        /\ With(FetchedFor(e.args[1])[1], LAMBDA m :
           With(FetchedFor(e.args[2]), LAMBDA ss :
                /\ result[1].buf.abs = m.buf.abs
                /\ \A j \in 1..Len(m.buf.vals) :
                      ~m.buf.abs[j] =>
                          result[1].buf.vals[j] = FSub(m.buf.vals[j], SubtrahendsAt(ss, j))
                /\ e.args[1] = e.args[2] /\ Len(ss) = 1 =>
                      \A j \in 1..Len(m.buf.vals) :
                          ~m.buf.abs[j] => result[1].buf.vals[j] = FInt(0)))

\* diffSeries(x, x) has returned 0 and absent samples for a series x that has
\* absent and present samples
DiffSeriesLawWitness ==
    /\ DiffDone /\ e.args[1] = e.args[2] /\ Len(FetchedFor(e.args[1])) = 1
    /\ With(FetchedFor(e.args[1])[1], LAMBDA m :
            /\ \E j, k \in 1..Len(m.buf.vals) : m.buf.abs[j] /\ ~m.buf.abs[k]
            /\ result[1].buf.abs = m.buf.abs
            /\ \A j \in 1..Len(m.buf.vals) :
                  ~m.buf.abs[j] => result[1].buf.vals[j] = FInt(0))

\* the indexes at which the series is present
PresentIndexes(s) == {j \in 1..Len(s.buf.vals) : ~s.buf.abs[j]}

\* derivative(integral(x)) has returned for a Name x
DerivativeOfIntegralDone ==
    /\ pc = "done" /\ Parsed /\ ~panicked
    /\ e.etype = "etFunc" /\ e.target = Lit["derivative"] /\ Len(e.args) = 1
    /\ e.args[1].etype = "etFunc" /\ e.args[1].target = Lit["integral"]
    /\ Len(e.args[1].args) = 1 /\ e.args[1].args[1].etype = "etName"

TwiceDone(fn) ==
    /\ pc = "done" /\ Parsed /\ ~panicked
    /\ e.etype = "etFunc" /\ e.target = fn /\ Len(e.args) >= 1
    /\ e.args[1].etype = "etFunc" /\ e.args[1].target = fn

\* what the inner call of e returns (these functions leave their inputs alone)
OnceList == OutOf(e.args[1], <<1, 2>>, TRUE).list

\* the lists hold as many series, with the same samples
SameSampleLists(a, b) ==
    /\ Len(a) = Len(b)
    /\ \A i \in 1..Len(a) : SameSamples(a[i], b[i])

\* C21, as claimed: alias(alias(x, "a"), "a"), absolute(absolute(x)) and
\* isNonNull(isNonNull(x)) return the series lists that alias(x, "a"),
\* absolute(x) and isNonNull(x) return.
Idempotence ==
    \A fn \in {Lit["alias"], Lit["absolute"], Lit["isNonNull"]} :
        TwiceDone(fn) => result = OnceList

\* C21, amended: alias(alias(x, "a"), "a") returns the list alias(x, "a")
\* returns; absolute(absolute(x)) returns the samples of absolute(x) under
\* the names absolute(absolute(..)); isNonNull(isNonNull(x)) is 1 and present
\* at every index, which is isNonNull(x) only where x is present.
IdempotenceUpToNames ==
    /\ TwiceDone(Lit["alias"]) => result = OnceList
    /\ TwiceDone(Lit["absolute"]) =>
          /\ SameSampleLists(result, OnceList)
          /\ \A i \in 1..Len(result) :
                result[i].name = Paren(Lit["absolute"], OnceList[i].name)
    /\ TwiceDone(Lit["isNonNull"]) =>
          /\ Len(result) = Len(OnceList)
          /\ \A i \in 1..Len(result) :
                /\ Len(result[i].buf.vals) = Len(OnceList[i].buf.vals)
                /\ \A j \in 1..Len(result[i].buf.vals) :
                      result[i].buf.vals[j] = FInt(1) /\ ~result[i].buf.abs[j]

\* absolute(absolute(x)) has returned for an x with a negative and an absent
\* sample
IdempotenceUpToNamesWitness ==
    /\ TwiceDone(Lit["absolute"]) /\ Len(result) >= 1
    /\ With(OutOf(e.args[1].args[1], <<1, 2>>, TRUE).list, LAMBDA xs :
            /\ Len(xs) >= 1
            /\ \E j, k \in 1..Len(xs[1].buf.vals) :
                  /\ xs[1].buf.abs[j] /\ ~xs[1].buf.abs[k]
                  /\ FLt(xs[1].buf.vals[k], FInt(0))
                  /\ result[1].buf.vals[k] = FNeg(xs[1].buf.vals[k]))

\* asPercent(A, B) has returned for a total B that evaluates to one series
PercentDone ==
    /\ pc = "done" /\ Parsed /\ ~panicked
    /\ e.etype = "etFunc" /\ e.target = Lit["asPercent"] /\ Len(e.args) = 2
    /\ e.args[2].etype \in {"etName", "etFunc"}
    /\ Len(OutOf(e.args[2], <<1, 2>>, TRUE).list) = 1
    /\ Len(OutOf(e.args[1], <<1, 2>>, TRUE).list) >= 1

\* sample i of asPercent(a, b) is absent
PercentAbsent(a, b, i) ==
    \/ a.buf.abs[i]
    \/ Len(b.buf.abs) >= i /\ b.buf.abs[i]
    \/ Len(b.buf.vals) < i
    \/ b.buf.vals[i] = FInt(0)

PercentOf(r, a, b) ==
    /\ Len(r.buf.vals) = Len(a.buf.vals)
    /\ Len(r.buf.abs) = Len(a.buf.vals)
    /\ \A i \in 1..Len(a.buf.vals) :
          /\ r.buf.abs[i] = PercentAbsent(a, b, i)
          /\ ~r.buf.abs[i] =>
                r.buf.vals[i] = FMul(FDiv(a.buf.vals[i], b.buf.vals[i]), FInt(100))

\* the series of the list have the same number of samples
SameLengths(as) == \A j \in 1..Len(as) : Len(as[j].buf.vals) = Len(as[1].buf.vals)

\* C22: asPercent(A, B) with B a single total series has as many samples as
\* A and is, at index i, absent when A is absent, when B is absent, when B
\* has no sample i or when B[i] is 0, and A[i] / B[i] * 100 otherwise: for
\* the first series of A, and for all of them when they are equally long.
PercentOfTotal ==
    PercentDone =>
        With(OutOf(e.args[1], <<1, 2>>, TRUE).list, LAMBDA as :
        With(OutOf(e.args[2], <<1, 2>>, TRUE).list[1], LAMBDA b :
             /\ Len(result) = Len(as)
             /\ PercentOf(result[1], as[1], b)
             /\ \A j \in 1..Len(as) : Len(result[j].buf.vals) = Len(as[j].buf.vals)
             /\ SameLengths(as) => \A j \in 1..Len(as) : PercentOf(result[j], as[j], b)))

\* asPercent has returned over a total that is shorter than A, absent with a
\* value other than 0 where A is present, or 0 where A is present
PercentOfTotalWitness ==
    /\ PercentDone
    /\ With(OutOf(e.args[1], <<1, 2>>, TRUE).list[1], LAMBDA a :
       With(OutOf(e.args[2], <<1, 2>>, TRUE).list[1], LAMBDA b :
            /\ \E i \in 1..Len(a.buf.vals) : ~result[1].buf.abs[i]
            /\ \/ Len(b.buf.vals) < Len(a.buf.vals) /\ ~a.buf.abs[Len(a.buf.vals)]
               \/ \E i \in 1..Len(a.buf.vals) :
                     ~a.buf.abs[i] /\ b.buf.abs[i] /\ b.buf.vals[i] # FInt(0)))

\* every series of A, whatever their lengths
PercentOfEverySeries ==
    PercentDone =>
        With(OutOf(e.args[1], <<1, 2>>, TRUE).list, LAMBDA as :
        With(OutOf(e.args[2], <<1, 2>>, TRUE).list[1], LAMBDA b :
             \A j \in 1..Len(as) : PercentOf(result[j], as[j], b)))

\* the series of list with startTime and stopTime reduced by offs, the
\* names left open
TimesReduced(rs, list, offs) ==
    /\ Len(rs) = Len(list)
    /\ \A i \in 1..Len(list) :
          /\ rs[i].buf = list[i].buf
          /\ rs[i].step = list[i].step
          /\ rs[i].start = Sub32(list[i].start, offs)
          /\ rs[i].stop = Sub32(list[i].stop, offs)

\* the evaluation of the first argument of the timeShift call e over the
\* window moved by offs
ShiftedArgument(offs, order, forecastOk) ==
    With(evalExpr(e.args[1], Add32(from, offs), Add32(until, offs),
                  MkState(heap, values, order, forecastOk)), LAMBDA r :
         IF r.st.panic THEN [panic |-> TRUE, list |-> <<>>]
         ELSE [panic |-> FALSE, list |-> ResolvedList(r.st.heap, Items(r.st, r.res))])

\* the evaluation step of a timeShift call returns what its first argument
\* evaluates to over (from + offs, until + offs), startTime and stopTime
\* reduced by offs
TimeShiftStep ==
    pc = "eval" /\ IsShift(e) /\ pc' = "done" =>
        \E order \in Orders, forecastOk \in BOOLEAN :
            With(ShiftedArgument(ShiftOf(e).v, order, forecastOk), LAMBDA inner :
                 /\ panicked' = inner.panic
                 /\ TimesReduced(result', inner.list, ShiftOf(e).v))

\* C23: timeShift(series, interval) returns the series its first argument
\* evaluates to over (from + offs, until + offs), with the same values and
\* isAbsent flags and with startTime and stopTime reduced by offs (3600 more
\* than fetched for '-1h'); an unsigned interval is taken as negative.
TimeShiftMovesTimes == [][TimeShiftStep]_vars

\* timeShift(a.*,'-1h') has returned two series an hour after the fetched ones
TimeShiftMovesTimesWitness ==
    /\ pc = "done" /\ ~panicked /\ IsShift(e)
    /\ e.args[2].valStr = <<"-", "1">> \o Lit["h"]
    /\ Len(result) = 2
    /\ \A i \in 1..2 :
          /\ result[i].start = from /\ result[i].stop = until
          /\ result[i].buf =
                fetched[MkRequest(Lit["a.*"], Sub32(from, 3600), Sub32(until, 3600))][i].buf
          /\ fetched[MkRequest(Lit["a.*"], Sub32(from, 3600), Sub32(until, 3600))][i].start
                = Sub32(result[i].start, 3600)

\* the distinct elements of a sequence
Distinct(s) == {s[i] : i \in 1..Len(s)}

\* groupByNode(name, nodeIdx, 'sum') has returned, nodeIdx being a node of
\* every input name
GroupDone ==
    /\ pc = "done" /\ Parsed /\ ~panicked
    /\ e.etype = "etFunc" /\ e.target = Lit["groupByNode"] /\ Len(e.args) = 3
    /\ e.args[1].etype = "etName" /\ e.args[2].etype = "etConst"
    /\ e.args[3].etype = "etString" /\ e.args[3].valStr = Lit["sum"]

\* the group key of an input series
GroupKey(a) == metricNodes(a)[getIntArg(e, 1).v + 1]

\* the input series with key k
GroupMembers(k) == SelectSeq(FetchedFor(e.args[1]), LAMBDA a : GroupKey(a) = k)

\* r is the sum of the series of members: absent where all are absent
SumOfMembers(r, members) ==
    /\ Len(r.buf.vals) = Len(members[1].buf.vals)
    /\ \A i \in 1..Len(r.buf.vals) :
          With(SelectSeq(members, LAMBDA a : ~a.buf.abs[i]), LAMBDA p :
               /\ r.buf.abs[i] = (p = <<>>)
               /\ p # <<>> => r.buf.vals[i] = FSum([j \in 1..Len(p) |-> p[j].buf.vals[i]]))

\* one result per key among keys, named sumSeries(key) and summing its members
OnePerKey(keys) ==
    \A k \in keys :
        /\ Cardinality({i \in 1..Len(result) : result[i].name = Paren(Lit["sumSeries"], k)}) = 1
        /\ \A i \in 1..Len(result) :
              result[i].name = Paren(Lit["sumSeries"], k) /\ SameLengths(GroupMembers(k)) =>
                  SumOfMembers(result[i], GroupMembers(k))

\* C24: groupByNode(seriesList, nodeIdx, 'sum') returns exactly one series per
\* distinct group key, named sumSeries(key) and computed from exactly the
\* input series with that key; no group is dropped, whatever its key.
GroupPerKey ==
    GroupDone =>
        With(Distinct([i \in 1..Len(FetchedFor(e.args[1])) |-> GroupKey(FetchedFor(e.args[1])[i])]),
             LAMBDA keys : Len(result) = Cardinality(keys) /\ OnePerKey(keys))

\* the same for the group keys that start with a letter
GroupPerNamedKey ==
    GroupDone =>
        With(Distinct([i \in 1..Len(FetchedFor(e.args[1])) |-> GroupKey(FetchedFor(e.args[1])[i])]),
             LAMBDA keys :
             /\ (\A k \in keys : ~isDigit(k[1])) => Len(result) = Cardinality(keys)
             /\ OnePerKey({k \in keys : ~isDigit(k[1])}))

\* a comparator call over a series name and constantLine(threshold) has
\* been evaluated
CompareDone ==
    /\ pc = "done" /\ Parsed
    /\ e.etype = "etFunc"
    /\ e.target \in {Lit["checkLess"], Lit["checkLessEqual"], Lit["checkGreater"],
                     Lit["checkGreaterEqual"], Lit["checkEqual"]}
    /\ Len(e.args) = 2 /\ e.args[1].etype = "etName"
    /\ e.args[2].etype = "etFunc" /\ e.args[2].target = Lit["constantLine"]
    /\ Len(e.args[2].args) = 1 /\ e.args[2].args[1].etype = "etConst"

\* the comparison a comparator is named after
Holds(target, v, w) ==
    IF target = Lit["checkLess"] THEN FLt(v, w)
    ELSE IF target = Lit["checkLessEqual"] THEN FLt(v, w) \/ v = w
    ELSE IF target = Lit["checkGreater"] THEN FLt(w, v)
    ELSE IF target = Lit["checkGreaterEqual"] THEN FLt(w, v) \/ v = w
    ELSE v = w

\* every sample of every input series is compared against the threshold
ComparedTo(threshold) ==
    /\ ~panicked
    /\ Len(result) = Len(FetchedFor(e.args[1]))
    /\ \A j \in 1..Len(result) :
          With(FetchedFor(e.args[1])[j].buf, LAMBDA a :
               /\ Len(result[j].buf.vals) = Len(a.vals)
               /\ result[j].buf.abs = a.abs
               /\ \A i \in 1..Len(a.vals) :
                     ~a.abs[i] =>
                         result[j].buf.vals[i] =
                             IF Holds(e.target, a.vals[i], threshold) THEN FInt(0)
                             ELSE FInt(1))

\* C25: a comparator over a 2-point constant line compares every sample of
\* every input series against element 0 of the line, for every threshold:
\* 0 where the comparison holds, 1 where it fails, absent where the input is.
CompareAgainstLine == CompareDone => ComparedTo(e.args[2].args[1].val)

\* the same for the thresholds other than -1
CompareAgainstOtherLines ==
    CompareDone /\ e.args[2].args[1].val # FInt(-1) => ComparedTo(e.args[2].args[1].val)

\* highestAverage, highestCurrent or highestMax over a series name and n >= 1
\* has been evaluated
HighestDone ==
    /\ pc = "done" /\ Parsed
    /\ e.etype = "etFunc"
    /\ e.target \in {Lit["highestAverage"], Lit["highestCurrent"], Lit["highestMax"]}
    /\ Len(e.args) = 2 /\ e.args[1].etype = "etName" /\ e.args[2].etype = "etConst"
    /\ getIntArg(e, 1).v >= 1

\* the reducer value of a series
Reduced(s) == highestCompute(e.target, s.buf.vals, s.buf.abs)

\* the elements of rs are in the given order of their reducer values
OrderedBy(rs, ascending) ==
    \A i, j \in 1..Len(rs) :
        i < j => IF ascending THEN ~FLt(Reduced(rs[j]), Reduced(rs[i]))
                 ELSE ~FLt(Reduced(rs[i]), Reduced(rs[j]))

\* rs holds count of the series of inputs, none of those left out having a
\* larger reducer value than one of rs
LargestOf(rs, inputs, count) ==
    /\ Len(rs) = count
    /\ \A i \in 1..Len(rs) : \E j \in 1..Len(inputs) : rs[i] = inputs[j]
    /\ \A j \in 1..Len(inputs) :
          (\A i \in 1..Len(rs) : rs[i] # inputs[j]) =>
              \A i \in 1..Len(rs) : ~FLt(Reduced(rs[i]), Reduced(inputs[j]))

\* C26: highestAverage, highestCurrent and highestMax return the input
\* series with the n largest reducer values, every element being an input
\* series, in ascending order of that value; all of them when there are
\* fewer than n.
HighestAscending ==
    HighestDone =>
        /\ ~panicked
        /\ With(FetchedFor(e.args[1]), LAMBDA inputs :
                IF Len(inputs) < getIntArg(e, 1).v THEN result = inputs
                ELSE LargestOf(result, inputs, getIntArg(e, 1).v) /\ OrderedBy(result, TRUE))

\* what the code returns: n slots, the series whose reducer value is a
\* number in descending order of that value, the other slots nil
HighestDescending ==
    HighestDone =>
        /\ ~panicked
        /\ With(FetchedFor(e.args[1]), LAMBDA inputs :
           With(SelectSeq(result, LAMBDA r : r # Resolved(<<>>, NilSeries)), LAMBDA rs :
                IF Len(inputs) < getIntArg(e, 1).v THEN result = inputs
                ELSE /\ Len(result) = getIntArg(e, 1).v
                     /\ result = rs \o [i \in 1..(Len(result) - Len(rs)) |->
                                          Resolved(<<>>, NilSeries)]
                     /\ LargestOf(rs, SelectSeq(inputs, LAMBDA s : ~IsNaN(Reduced(s))),
                                  Len(rs))
                     /\ OrderedBy(rs, FALSE)))

\* checkVariance over a series name has returned
VarianceDone ==
    /\ pc = "done" /\ Parsed /\ ~panicked
    /\ e.etype = "etFunc" /\ e.target = Lit["checkVariance"] /\ Len(e.args) = 3
    /\ e.args[1].etype = "etName"
    /\ e.args[2].etype = "etConst" /\ e.args[3].etype = "etConst"
    /\ Len(result) = Len(FetchedFor(e.args[1]))

\* the flags of the j-th input series: the averages and deviations are taken
\* over the present samples of all input series at each index
Flagged(j) ==
    With(FetchedFor(e.args[1]), LAMBDA inputs :
    With([i \in 1..Len(inputs[1].buf.vals) |->
             With(SelectSeq(inputs, LAMBDA s : ~s.buf.abs[i]), LAMBDA p :
                  [k \in 1..Len(p) |-> p[k].buf.vals[i]])], LAMBDA present :
         singleFailures(inputs[j].buf.vals, inputs[j].buf.abs,
                        [i \in 1..Len(present) |-> FStdev(present[i])],
                        [i \in 1..Len(present) |->
                            IF present[i] = <<>> THEN NaN ELSE FAvg(present[i])],
                        e.args[2].val)))

\* the length of the maximal run of flagged samples that contains index i
RunAround(flags, i) ==
    Cardinality({k \in 1..Len(flags) :
                    \A m \in 1..Len(flags) : (m >= k /\ m <= i) \/ (m <= k /\ m >= i) =>
                        flags[m] = 1})

\* the output of every series is 1 exactly at the flagged samples whose run
\* is at least windows long
RunsCounted ==
    \A j \in 1..Len(result) :
        /\ Len(result[j].buf.vals) = Len(Flagged(j))
        /\ \A i \in 1..Len(Flagged(j)) :
              result[j].buf.vals[i] =
                  IF Flagged(j)[i] = 1 /\ RunAround(Flagged(j), i) >= Trunc(e.args[3].val)
                  THEN FInt(1) ELSE FInt(0)

\* C27: the output of checkVariance at index i is 1 exactly when sample i is
\* flagged and the maximal run of consecutive flagged samples that contains
\* i has length at least windows, and 0 otherwise.
VarianceRuns == VarianceDone => RunsCounted

\* the same for windows = 1, where every flagged sample is reported
VarianceSingleWindow == VarianceDone /\ Trunc(e.args[3].val) = 1 => RunsCounted

\* maxDataPoints over a series name and points >= 1 has been evaluated, the
\* input series having the samples of their window
PointsDone ==
    /\ pc = "done" /\ Parsed
    /\ e.etype = "etFunc" /\ e.target = Lit["maxDataPoints"] /\ Len(e.args) = 2
    /\ e.args[1].etype = "etName" /\ e.args[2].etype = "etConst"
    /\ getIntArg(e, 1).v >= 1
    /\ \A i \in 1..Len(FetchedFor(e.args[1])) : Sized(FetchedFor(e.args[1])[i])

\* sample k of r is the average of the present samples of a whose time lies
\* in the k-th bucket of r, and absent when there is none
BucketAverages(r, a) ==
    \A k \in 1..Len(r.buf.vals) :
        With(SelectSeq([i \in 1..Len(a.buf.vals) |-> i],
                       LAMBDA i : /\ ~a.buf.abs[i]
                                  /\ a.start + (i - 1) * a.step >= r.start + (k - 1) * r.step
                                  /\ a.start + (i - 1) * a.step < r.start + k * r.step),
             LAMBDA p :
             /\ r.buf.abs[k] = (p = <<>>)
             /\ p # <<>> => r.buf.vals[k] = FAvg([j \in 1..Len(p) |-> a.buf.vals[p[j]]]))

\* C28: maxDataPoints(seriesList, points) returns, for every input series and
\* every points >= 1, a series of at most points samples, each the average
\* of the non-absent input samples of its bucket.
AtMostPoints ==
    PointsDone =>
        /\ ~panicked
        /\ Len(result) = Len(FetchedFor(e.args[1]))
        /\ \A j \in 1..Len(result) :
              /\ Len(result[j].buf.vals) <= getIntArg(e, 1).v
              /\ BucketAverages(result[j], FetchedFor(e.args[1])[j])

\* the same without the bound on the number of samples, for the windows
\* whose alignment does not wrap around
PointsAreBucketAverages ==
    PointsDone /\ from >= 0 =>
        /\ ~panicked
        /\ Len(result) = Len(FetchedFor(e.args[1]))
        /\ \A j \in 1..Len(result) : BucketAverages(result[j], FetchedFor(e.args[1])[j])

\* pearsonClosest(c, name, n) with n >= 1 and a direction, if any, of pos,
\* neg or abs has been evaluated over a single reference series
PearsonDone ==
    /\ pc = "done" /\ Parsed
    /\ e.etype = "etFunc" /\ e.target = Lit["pearsonClosest"] /\ Len(e.args) \in {3, 4}
    /\ e.args[1].etype = "etName" /\ e.args[2].etype = "etName"
    /\ Len(FetchedFor(e.args[1])) = 1
    /\ e.args[3].etype = "etConst" /\ getIntArg(e, 2).v >= 1
    /\ getStringArgDefault(e, 3, Lit["abs"]).v \in {Lit["pos"], Lit["neg"], Lit["abs"]}

\* the values of a fetched series, NaN where the sample is absent
Masked(s) == [i \in 1..Len(s.buf.vals) |-> IF s.buf.abs[i] THEN NaN ELSE s.buf.vals[i]]

\* the series of compare that take part in the ranking: as long as the
\* reference, with a correlation that is defined and of an admitted sign
Ranked ==
    SelectSeq(FetchedFor(e.args[2]), LAMBDA s :
        /\ Len(s.buf.vals) = Len(FetchedFor(e.args[1])[1].buf.vals)
        /\ With(Pearson(Masked(FetchedFor(e.args[1])[1]), Masked(s)), LAMBDA value :
                /\ ~IsNaN(value)
                /\ getStringArgDefault(e, 3, Lit["abs"]).v = Lit["pos"] => value.n >= 0
                /\ getStringArgDefault(e, 3, Lit["abs"]).v = Lit["neg"] => value.n <= 0))

\* C30: pearsonClosest(ref, compare, n, direction) returns the n series of
\* compare that rank highest by correlation with ref (all the ranked ones
\* when there are fewer), each returned element being a distinct series of
\* compare.
PearsonTopN ==
    PearsonDone =>
        /\ ~panicked
        /\ Len(result) = IF Len(Ranked) < getIntArg(e, 2).v THEN Len(Ranked)
                         ELSE getIntArg(e, 2).v
        /\ \A i \in 1..Len(result) : \E j \in 1..Len(Ranked) : result[i].name = Ranked[j].name
        /\ \A i, j \in 1..Len(result) : i # j => result[i].name # result[j].name

\* what the code returns: n slots, all but the last nil, the last one a
\* ranked series when there is one
PearsonLastSlot ==
    PearsonDone =>
        /\ ~panicked
        /\ Len(result) = getIntArg(e, 2).v
        /\ \A i \in 1..(Len(result) - 1) : result[i] = Resolved(<<>>, NilSeries)
        /\ IF Ranked = <<>> THEN result[Len(result)] = Resolved(<<>>, NilSeries)
           ELSE \E j \in 1..Len(Ranked) : result[Len(result)].name = Ranked[j].name

\* movingAverage(name, w) with an integer window w >= 1 has returned
MovingDone ==
    /\ pc = "done" /\ Parsed /\ ~panicked
    /\ e.etype = "etFunc" /\ e.target = Lit["movingAverage"] /\ Len(e.args) = 2
    /\ e.args[1].etype = "etName" /\ e.args[2].etype = "etConst"
    /\ getIntArg(e, 1).v >= 1

\* the present samples of a among the w samples before index k
LastSeen(a, k, w) ==
    With(SelectSeq([i \in 1..Len(a.buf.vals) |-> i],
                   LAMBDA i : i >= k - w /\ i < k /\ ~a.buf.abs[i]),
         LAMBDA p : [j \in 1..Len(p) |-> a.buf.vals[p[j]]])

====
